---- MODULE Spec2Model ----
(***************************************************************************)
(* Chunking, scheduling and reconciliation engine of the audio             *)
(* transcription service (src/services/geminiService.ts).                  *)
(*                                                                         *)
(* The source file holds several variants of GeminiService.processAudio.   *)
(* The variable `variant` selects the one a run executes:                  *)
(*   "tiled"    lines 1-268    (ownership tiling, polling admission loop)  *)
(*   "bytesize" lines 851-1075 (byte-size chunks, runInParallel pool)      *)
(*                                                                         *)
(* Time is counted in hundredths of a second (Sec(1) = one second), bytes  *)
(* in bytes.  Chunk indices are 1-based here: task i of the model is the   *)
(* task with index i-1 of the source.                                      *)
(***************************************************************************)
EXTENDS Integers, Sequences, FiniteSets, TLC

VARIABLES
    variant,        \* which processAudio runs
    file,           \* the input File: [decodable, duration, size]
    main,           \* position of the processAudio coroutine
    chunks,         \* chunks / chunkInfos
    script,         \* what the oracle answers for each chunk (environment)
    pc,             \* position of each chunk task
    chunkResults,   \* chunkResults / results: <<>> is an empty slot
    completedCount, \* completedCount
    fullResult,     \* <<>> until processAudio returns, then <<result>>
    progressLog,    \* every onProgress call: [percent, by]
    writeLog,       \* every slot write: [slot, by]
    callLog,        \* tasks in the order they called transcribeChunk
    readLog,        \* every slot read: [by, slot, written]
    ui              \* state of the React component under study

vars == <<variant, file, main, chunks, script, pc, chunkResults,
          completedCount, fullResult, progressLog, writeLog, callLog,
          readLog, ui>>

\* no component is mounted: the specifications of processAudio leave ui alone
NoUi == [component |-> "none"]

----------------------------------------------------------------------------
(* Bounds of the model *)

MaxChunks == 3

----------------------------------------------------------------------------
(* Units *)

Sec(n) == n * 100
Tenths(n) == n * 10

Min(a, b) == IF a <= b THEN a ELSE b
Abs(a) == IF a < 0 THEN 0 - a ELSE a

RECURSIVE Gcd(_, _)
Gcd(a, b) == IF b = 0 THEN a ELSE Gcd(b, a % b)


----------------------------------------------------------------------------
(* Program constants *)

CHUNK_DURATION == Sec(180)
OVERLAP_DURATION == Sec(20)
STEP_SIZE == CHUNK_DURATION - OVERLAP_DURATION
MAX_CONCURRENCY == 2

CHUNK_SIZE_LIMIT == 5 * 1024 * 1024
MAX_CONCURRENCY_POOL == 5
ESTIMATE_BYTES_PER_SECOND == (128 * 1024) \div 8
FUZZY_EPSILON == Tenths(3)
FUZZY_PREFIX == 15

\* overlap-discard variant
CHUNK_DURATION_DISCARD == Sec(300)
OVERLAP_DURATION_DISCARD == Sec(15)
STEP_SIZE_DISCARD == CHUNK_DURATION_DISCARD - OVERLAP_DURATION_DISCARD
\* fuzzy variant
CHUNK_DURATION_LIMIT == Sec(300)
OVERLAP_DURATION_FUZZY == Sec(2)
STRICT_EPSILON == Tenths(2)
STRICT_PREFIX == 10

----------------------------------------------------------------------------
(* Data model (src/types.ts).  Text is a sequence of one-character strings *)
(* so that substring and toLowerCase can be computed.                      *)

UpperCase == <<"A","B","C","D","E","F","G","H","I","J","K","L","M",
               "N","O","P","Q","R","S","T","U","V","W","X","Y","Z">>
LowerCase == <<"a","b","c","d","e","f","g","h","i","j","k","l","m",
               "n","o","p","q","r","s","t","u","v","w","x","y","z">>

ToLowerChar(c) ==
    IF \E k \in 1..Len(UpperCase) : UpperCase[k] = c
    THEN LowerCase[CHOOSE k \in 1..Len(UpperCase) : UpperCase[k] = c]
    ELSE c

\* String.prototype.toLowerCase
ToLowerCase(text) == [k \in 1..Len(text) |-> ToLowerChar(text[k])]

\* String.prototype.substring(0, n)
Substring0(text, n) == SubSeq(text, 1, Min(n, Len(text)))

TranscriptLine(sp, en, zh, s, e) ==
    [speaker |-> sp, english |-> en, chinese |-> zh,
     startTimeInSeconds |-> s, endTimeInSeconds |-> e]

VocabularyItem(w, d) ==
    [word |-> w, ipa |-> "ipa", definition |-> d, example |-> "ex"]

TranscriptionResult(t, v) == [transcript |-> t, vocabulary |-> v]

\* { transcript: [], vocabulary: [] }
EmptyResult == TranscriptionResult(<<>>, <<>>)

----------------------------------------------------------------------------
(* The scripted oracle: what transcribeChunk does for one chunk.  It either *)
(* throws (network failure, unparseable JSON) or returns a result that     *)
(* follows the response schema (transcript and vocabulary both present)    *)
(* and whose timestamps went through parseTimeToSeconds.                   *)

TextHello == <<"H","e","l","l","o">>
TextHelloLower == <<"h","e","l","l","o">>
TextBye == <<"B","y","e">>
WordTerm == <<"T","e","r","m">>
WordTermLower == <<"t","e","r","m">>
WordData == <<"d","a","t","a">>

ResultA ==
    TranscriptionResult(
        << TranscriptLine("A", TextHello, "a1", Sec(10), Sec(15)),
           TranscriptLine("B", TextBye, "a2", Sec(170), Sec(175)) >>,
        << VocabularyItem(WordTerm, "first"), VocabularyItem(WordData, "d") >>)

ResultB ==
    TranscriptionResult(
        << TranscriptLine("B", TextBye, "b1", Sec(50), Sec(52)),
           TranscriptLine("A", TextHelloLower, "b2", Sec(10), Sec(14)) >>,
        << VocabularyItem(WordTermLower, "second") >>)

OracleThrows == [throws |-> TRUE, value |-> EmptyResult]
OracleReturns(r) == [throws |-> FALSE, value |-> r]

OracleOutcomes == { OracleThrows, OracleReturns(ResultA), OracleReturns(ResultB) }

----------------------------------------------------------------------------
(* AudioSegmenter *)

\* variant of SegmentFrom: the loop steps by CHUNK_DURATION + OVERLAP_DURATION
RECURSIVE SegmentFromGap(_, _)
SegmentFromGap(start, totalDuration) ==
    IF ~(start < totalDuration) THEN <<>>
    ELSE LET end == Min(start + CHUNK_DURATION, totalDuration) IN
         << [start |-> start, duration |-> end - start] >>
         \o (IF end >= totalDuration THEN <<>>
             ELSE SegmentFromGap(start + CHUNK_DURATION + OVERLAP_DURATION,
                                 totalDuration))

\* variant of SegmentFrom: the loop steps by CHUNK_DURATION
RECURSIVE SegmentFromNoOverlap(_, _)
SegmentFromNoOverlap(start, totalDuration) ==
    IF ~(start < totalDuration) THEN <<>>
    ELSE LET end == Min(start + CHUNK_DURATION, totalDuration) IN
         << [start |-> start, duration |-> end - start] >>
         \o (IF end >= totalDuration THEN <<>>
             ELSE SegmentFromNoOverlap(start + CHUNK_DURATION, totalDuration))

\* variant of SegmentFrom: the loop test comes after the body
RECURSIVE SegmentFromTestLast(_, _)
SegmentFromTestLast(start, totalDuration) ==
    LET end == Min(start + CHUNK_DURATION, totalDuration) IN
    << [start |-> start, duration |-> end - start] >>
    \o (IF end >= totalDuration THEN <<>>
        ELSE SegmentFromTestLast(start + STEP_SIZE, totalDuration))

\* tiled variant: for (start = 0; start < totalDuration; start += STEP_SIZE)
RECURSIVE SegmentFrom(_, _)
SegmentFrom(start, totalDuration) ==
    IF ~(start < totalDuration) THEN <<>>
    ELSE LET end == Min(start + CHUNK_DURATION, totalDuration) IN
         << [start |-> start, duration |-> end - start] >>
         \o (IF end >= totalDuration THEN <<>>
             ELSE SegmentFrom(start + STEP_SIZE, totalDuration))

Segment(totalDuration) == SegmentFrom(0, totalDuration)

\* overlap-discard variant: for (start = 0; start < totalDuration;
\* start += STEP_SIZE) { end = min(start + CHUNK_DURATION, totalDuration);
\* push; if (end >= totalDuration) break }
RECURSIVE SegmentDiscardFrom(_, _)
SegmentDiscardFrom(start, totalDuration) ==
    IF ~(start < totalDuration) THEN <<>>
    ELSE LET end == Min(start + CHUNK_DURATION_DISCARD, totalDuration) IN
         << [start |-> start, duration |-> end - start] >>
         \o (IF end >= totalDuration THEN <<>>
             ELSE SegmentDiscardFrom(start + STEP_SIZE_DISCARD, totalDuration))

\* fuzzy variant: for (start = 0; start < duration;
\* start += CHUNK_DURATION_LIMIT) { end = min(start + CHUNK_DURATION_LIMIT
\* + OVERLAP_DURATION, duration); push }   -- the loop has no break
RECURSIVE SegmentFuzzyFrom(_, _)
SegmentFuzzyFrom(start, duration) ==
    IF ~(start < duration) THEN <<>>
    ELSE LET end == Min(start + CHUNK_DURATION_LIMIT + OVERLAP_DURATION_FUZZY,
                        duration) IN
         << [start |-> start, duration |-> end - start] >>
         \o SegmentFuzzyFrom(start + CHUNK_DURATION_LIMIT, duration)

\* the segmentation loop of each variant
Windows(v, totalDuration) ==
    CASE v = "tiled"   -> Segment(totalDuration)
      [] v = "discard" -> SegmentDiscardFrom(0, totalDuration)
      [] v = "fuzzy"   -> SegmentFuzzyFrom(0, totalDuration)

\* (a / size) * totalDuration as an exact fraction.  Every byte count a of
\* the loop is a multiple of g = gcd(CHUNK_SIZE_LIMIT, size), so the fractions
\* of one file share the denominator size / g.
Scale(a, size, totalDuration) ==
    LET g == Gcd(CHUNK_SIZE_LIMIT, size) IN
    [num |-> (a \div g) * totalDuration, den |-> size \div g]

\* x + y for fractions of one file
RatioPlus(x, y) == [num |-> x.num + y.num, den |-> x.den]

\* variant of ByteChunksFrom: every chunk is given the duration of a full one
RECURSIVE ByteChunksFromFull(_, _, _)
ByteChunksFromFull(byteOffset, size, totalDuration) ==
    IF ~(byteOffset < size) THEN <<>>
    ELSE LET end == Min(byteOffset + CHUNK_SIZE_LIMIT, size) IN
         << [byteOffset |-> byteOffset, byteEnd |-> end,
             offset |-> Scale(byteOffset, size, totalDuration),
             duration |-> Scale(CHUNK_SIZE_LIMIT, size, totalDuration)] >>
         \o ByteChunksFromFull(end, size, totalDuration)

\* byte-size variant: while (byteOffset < file.size)
RECURSIVE ByteChunksFrom(_, _, _)
ByteChunksFrom(byteOffset, size, totalDuration) ==
    IF ~(byteOffset < size) THEN <<>>
    ELSE LET end == Min(byteOffset + CHUNK_SIZE_LIMIT, size) IN
         << [byteOffset |-> byteOffset, byteEnd |-> end,
             offset |-> Scale(byteOffset, size, totalDuration),
             duration |-> Scale(end - byteOffset, size, totalDuration)] >>
         \o ByteChunksFrom(end, size, totalDuration)

ByteChunks(size, totalDuration) == ByteChunksFrom(0, size, totalDuration)

\* variant of GetAudioDuration: a failed decode gives duration 0
GetAudioDurationOrZero(f) == IF f.decodable THEN f.duration ELSE 0

\* getAudioDuration: the decoded duration, or the 128 kbps estimate
GetAudioDuration(f) ==
    IF f.decodable THEN f.duration
    ELSE Sec(f.size \div ESTIMATE_BYTES_PER_SECOND)
         + Sec(f.size % ESTIMATE_BYTES_PER_SECOND) \div ESTIMATE_BYTES_PER_SECOND

----------------------------------------------------------------------------
(* parseTimeToSeconds.  A JavaScript number is a record: NaN, or a value in *)
(* thousandths of a second.  A string is a sequence of characters.          *)

Milli(n) == n * 1000

NaN == [nan |-> TRUE, val |-> 0]
Num(v) == [nan |-> FALSE, val |-> v]

Plus(a, b) == IF a.nan \/ b.nan THEN NaN ELSE Num(a.val + b.val)
Times(a, k) == IF a.nan THEN NaN ELSE Num(a.val * k)

\* x || 0
OrZero(x) == IF x.nan \/ x.val = 0 THEN Num(0) ELSE x

Digits == <<"0","1","2","3","4","5","6","7","8","9">>
IsDigit(c) == \E d \in 1..Len(Digits) : Digits[d] = c
DigitValue(c) == (CHOOSE d \in 1..Len(Digits) : Digits[d] = c) - 1

\* String.prototype.trim
RECURSIVE TrimStart(_)
TrimStart(str) ==
    IF str # <<>> /\ Head(str) = " " THEN TrimStart(Tail(str)) ELSE str

RECURSIVE TrimEnd(_)
TrimEnd(str) ==
    IF str # <<>> /\ str[Len(str)] = " "
    THEN TrimEnd(SubSeq(str, 1, Len(str) - 1)) ELSE str

Trim(str) == TrimEnd(TrimStart(str))

\* String.prototype.includes
Includes(str, c) == \E k \in 1..Len(str) : str[k] = c

\* String.prototype.split with a one-character separator
RECURSIVE SplitFrom(_, _, _)
SplitFrom(part, str, c) ==
    IF str = <<>> THEN << part >>
    ELSE IF Head(str) = c THEN << part >> \o SplitFrom(<<>>, Tail(str), c)
    ELSE SplitFrom(Append(part, Head(str)), Tail(str), c)

Split(str, c) == SplitFrom(<<>>, str, c)

\* number of leading decimal digits
RECURSIVE LeadingDigits(_)
LeadingDigits(str) ==
    IF str # <<>> /\ IsDigit(Head(str)) THEN 1 + LeadingDigits(Tail(str)) ELSE 0

\* length of the longest prefix that is a decimal literal (digits, an
\* optional point, digits; at least one digit), 0 when there is none
DecimalPrefixLength(str) ==
    LET whole == LeadingDigits(str)
        rest == SubSeq(str, whole + 1, Len(str))
        fraction == IF rest # <<>> /\ Head(rest) = "."
                    THEN LeadingDigits(Tail(rest)) ELSE 0
    IN  IF whole + fraction = 0 THEN 0
        ELSE IF rest # <<>> /\ Head(rest) = "." THEN whole + 1 + fraction
        ELSE whole

RECURSIVE WholeValue(_, _)
WholeValue(acc, str) ==
    IF str = <<>> \/ ~IsDigit(Head(str)) THEN acc
    ELSE WholeValue(acc * 10 + DigitValue(Head(str)), Tail(str))

RECURSIVE FractionValue(_, _)
FractionValue(weight, str) ==
    IF str = <<>> \/ ~IsDigit(Head(str)) THEN 0
    ELSE DigitValue(Head(str)) * (weight \div 10)
         + FractionValue(weight \div 10, Tail(str))

\* the value of a decimal literal
DecimalValue(str) ==
    LET whole == LeadingDigits(str)
        rest == SubSeq(str, whole + 1, Len(str))
    IN  Milli(WholeValue(0, str))
        + (IF rest # <<>> /\ Head(rest) = "."
           THEN FractionValue(Milli(1), Tail(rest)) ELSE 0)

\* Number(string): white space is trimmed, the empty string is 0, anything
\* that is not wholly a decimal literal is NaN
ToNumber(str) ==
    LET t == Trim(str) IN
    IF t = <<>> THEN Num(0)
    ELSE IF DecimalPrefixLength(t) = Len(t) THEN Num(DecimalValue(t))
    ELSE NaN

\* parseFloat(string): the longest decimal-literal prefix after leading
\* white space, NaN when there is none
ParseFloat(str) ==
    LET t == TrimStart(str)
        n == DecimalPrefixLength(t)
    IN  IF n = 0 THEN NaN ELSE Num(DecimalValue(SubSeq(t, 1, n)))

\* values a timestamp field of the oracle's JSON can hold
Undefined == [type |-> "undefined", val |-> 0, str |-> <<>>]
Null == [type |-> "null", val |-> 0, str |-> <<>>]
Number(v) == [type |-> "number", val |-> v, str |-> <<>>]
String(str) == [type |-> "string", val |-> 0, str |-> str]

\* parseTimeToSeconds of the tiled variant (geminiService.ts 15-34)
ParseTimeToSeconds(time) ==
    IF time.type \in { "undefined", "null" } THEN Num(0)
    ELSE IF time.type = "number" THEN Num(time.val)
    ELSE LET timeStr == Trim(time.str)
             parts == [k \in DOMAIN Split(timeStr, ":") |->
                          ToNumber(Split(timeStr, ":")[k])]
         IN  IF timeStr = <<>> THEN Num(0)
             ELSE IF Includes(timeStr, ":") /\ Len(parts) = 2
                  THEN Plus(Times(parts[1], 60), OrZero(parts[2]))
             ELSE IF Includes(timeStr, ":") /\ Len(parts) = 3
                  THEN Plus(Plus(Times(parts[1], 3600), Times(parts[2], 60)),
                            OrZero(parts[3]))
             ELSE OrZero(ParseFloat(timeStr))

\* parseTimeToSeconds of the other variants and of TranscriptCard.tsx
ParseTimeToSecondsPlain(time) ==
    IF time.type = "number" THEN Num(time.val)
    ELSE IF time.type \in { "undefined", "null" } \/ time.str = <<>> THEN Num(0)
    ELSE LET parts == [k \in DOMAIN Split(time.str, ":") |->
                          ToNumber(Split(time.str, ":")[k])]
         IN  IF Len(parts) = 2
             THEN Plus(Times(parts[1], 60), parts[2])
             ELSE IF Len(parts) = 3
             THEN Plus(Plus(Times(parts[1], 3600), Times(parts[2], 60)), parts[3])
             ELSE OrZero(ParseFloat(time.str))

----------------------------------------------------------------------------
(* VocabularyMerger *)

\* variant of HasWord: the words are compared as they are
HasWordExact(vocabulary, item) ==
    \E k \in 1..Len(vocabulary) : vocabulary[k].word = item.word

\* fullResult.vocabulary.some(v => v.word.toLowerCase() === item.word.toLowerCase())
HasWord(vocabulary, item) ==
    \E k \in 1..Len(vocabulary) :
        ToLowerCase(vocabulary[k].word) = ToLowerCase(item.word)

RECURSIVE MergeVocabulary(_, _)
MergeVocabulary(acc, items) ==
    IF items = <<>> THEN acc
    ELSE MergeVocabulary(
            IF HasWord(acc, Head(items)) THEN acc ELSE Append(acc, Head(items)),
            Tail(items))

----------------------------------------------------------------------------
(* ChunkResultReconciler *)

\* variant of OwnsLine: no special case for the last chunk
OwnsLineNoLast(line, index, n) == line.startTimeInSeconds < STEP_SIZE

\* variant of OwnsLine: the tile is [0, CHUNK_DURATION)
OwnsLineWholeWindow(line, index, n) ==
    (index = n) \/ (line.startTimeInSeconds < CHUNK_DURATION)

\* variant of OwnsLine: the tile is [0, STEP_SIZE]
OwnsLineInclusive(line, index, n) ==
    (index = n) \/ (line.startTimeInSeconds <= STEP_SIZE)

\* tiled variant: isLastChunk || startsInThisTile
OwnsLine(line, index, n) ==
    (index = n) \/ (line.startTimeInSeconds < STEP_SIZE)

\* variant of ShiftLine: only the start is made global
ShiftLineStartOnly(line, globalOffset) ==
    [line EXCEPT !.startTimeInSeconds = globalOffset + line.startTimeInSeconds]

\* { ...line, startTimeInSeconds: globalOffset + ..., endTimeInSeconds: ... }
ShiftLine(line, globalOffset) ==
    [line EXCEPT !.startTimeInSeconds = globalOffset + line.startTimeInSeconds,
                 !.endTimeInSeconds = globalOffset + line.endTimeInSeconds]

RECURSIVE TiledLines(_, _, _, _)
TiledLines(acc, lines, index, n) ==
    IF lines = <<>> THEN acc
    ELSE TiledLines(
            IF OwnsLine(Head(lines), index, n)
            THEN Append(acc, ShiftLine(Head(lines), (index - 1) * STEP_SIZE))
            ELSE acc,
            Tail(lines), index, n)

\* variant of DropsLine: the first chunk is treated like the others
DropsLineAnyChunk(line, index) ==
    line.startTimeInSeconds < OVERLAP_DURATION_DISCARD

\* overlap-discard variant: index > 0 && line.startTimeInSeconds < OVERLAP_DURATION
DropsLine(line, index) ==
    index > 1 /\ line.startTimeInSeconds < OVERLAP_DURATION_DISCARD

\* overlap-discard variant: (result.transcript || []).forEach, offset = index * STEP_SIZE
RECURSIVE DiscardLines(_, _, _)
DiscardLines(acc, lines, index) ==
    IF lines = <<>> THEN acc
    ELSE DiscardLines(
            IF DropsLine(Head(lines), index)
            THEN acc
            ELSE Append(acc, ShiftLine(Head(lines), (index - 1) * STEP_SIZE_DISCARD)),
            Tail(lines), index)

\* fuzzy variant: isDuplicate ("strict timestamp check")
IsDuplicateStrict(transcript, newLine) ==
    \E k \in 1..Len(transcript) :
        /\ Abs(transcript[k].startTimeInSeconds - newLine.startTimeInSeconds)
              < STRICT_EPSILON
        /\ ToLowerCase(Substring0(transcript[k].english, STRICT_PREFIX))
              = ToLowerCase(Substring0(newLine.english, STRICT_PREFIX))

\* fuzzy variant: (chunkResult.transcript || []).forEach(newLine => ...)
RECURSIVE FuzzyLinesStrict(_, _)
FuzzyLinesStrict(acc, lines) ==
    IF lines = <<>> THEN acc
    ELSE FuzzyLinesStrict(
            IF IsDuplicateStrict(acc, Head(lines)) THEN acc
            ELSE Append(acc, Head(lines)),
            Tail(lines))

\* variant of IsDuplicate: a new line is compared with the last kept line only
IsDuplicateOfLast(transcript, newLine) ==
    /\ transcript # <<>>
    /\ Abs(transcript[Len(transcript)].startTimeInSeconds
             - newLine.startTimeInSeconds) < FUZZY_EPSILON
    /\ ToLowerCase(Substring0(transcript[Len(transcript)].english, FUZZY_PREFIX))
          = ToLowerCase(Substring0(newLine.english, FUZZY_PREFIX))

\* byte-size variant: isDuplicate
IsDuplicate(transcript, newLine) ==
    \E k \in 1..Len(transcript) :
        /\ Abs(transcript[k].startTimeInSeconds - newLine.startTimeInSeconds)
              < FUZZY_EPSILON
        /\ ToLowerCase(Substring0(transcript[k].english, FUZZY_PREFIX))
              = ToLowerCase(Substring0(newLine.english, FUZZY_PREFIX))

RECURSIVE FuzzyLines(_, _)
FuzzyLines(acc, lines) ==
    IF lines = <<>> THEN acc
    ELSE FuzzyLines(
            IF IsDuplicate(acc, Head(lines)) THEN acc ELSE Append(acc, Head(lines)),
            Tail(lines))

\* variant of SlotsVisited: a dense loop over 0 .. length-1
SlotsVisitedAll(slots) == DOMAIN slots

\* the indices whose element Array.prototype.filter and forEach read: the
\* array is created with new Array(n), and both skip the holes
SlotsVisited(slots) == { j \in DOMAIN slots : slots[j] # <<>> }

\* chunkResults.forEach((result, index) => ...): slots in index order
RECURSIVE ReconcileFrom(_, _, _, _)
ReconcileFrom(acc, slots, index, v) ==
    IF index > Len(slots) THEN acc
    ELSE IF index \notin SlotsVisited(slots)
         THEN ReconcileFrom(acc, slots, index + 1, v)
    ELSE LET result == slots[index][1] IN
         ReconcileFrom(
            TranscriptionResult(
                CASE v = "tiled" ->
                        TiledLines(acc.transcript, result.transcript, index, Len(slots))
                  [] v = "discard" ->
                        DiscardLines(acc.transcript, result.transcript, index)
                  [] v = "fuzzy" ->
                        FuzzyLinesStrict(acc.transcript, result.transcript)
                  [] OTHER ->
                        FuzzyLines(acc.transcript, result.transcript),
                MergeVocabulary(acc.vocabulary, result.vocabulary)),
            slots, index + 1, v)

----------------------------------------------------------------------------
(* ResultSorter: Array.prototype.sort is stable; the comparator is         *)
(* a.startTimeInSeconds - b.startTimeInSeconds                             *)

\* variant of InsertSorted: a line goes before the lines of equal start
RECURSIVE InsertSortedTiesFirst(_, _)
InsertSortedTiesFirst(sorted, line) ==
    IF sorted = <<>> THEN << line >>
    ELSE IF Head(sorted).startTimeInSeconds < line.startTimeInSeconds
         THEN << Head(sorted) >> \o InsertSortedTiesFirst(Tail(sorted), line)
         ELSE << line >> \o sorted

RECURSIVE InsertSorted(_, _)
InsertSorted(sorted, line) ==
    IF sorted = <<>> THEN << line >>
    ELSE IF Head(sorted).startTimeInSeconds <= line.startTimeInSeconds
         THEN << Head(sorted) >> \o InsertSorted(Tail(sorted), line)
         ELSE << line >> \o sorted

RECURSIVE SortFrom(_, _)
SortFrom(sorted, lines) ==
    IF lines = <<>> THEN sorted
    ELSE SortFrom(InsertSorted(sorted, Head(lines)), Tail(lines))

SortByStart(lines) == SortFrom(<<>>, lines)

\* reconciliation, vocabulary merge and final sort of processAudio
Reconcile(slots, v) ==
    LET merged == ReconcileFrom(EmptyResult, slots, 1, v) IN
    TranscriptionResult(SortByStart(merged.transcript), merged.vocabulary)

----------------------------------------------------------------------------
(* Inputs *)

Variants == { "tiled", "bytesize" }

\* decoded durations that give 0 .. MaxChunks chunks in the tiled variant
\* (400 s gives the three chunks starting at 0, 160 and 320)
Durations ==
    { 0 } \cup { k * STEP_SIZE + Sec(80) : k \in 0..(MaxChunks - 1) }

\* file sizes that give 0 .. MaxChunks chunks in the byte-size variant,
\* the last chunk 1 MiB short of CHUNK_SIZE_LIMIT
Sizes ==
    { 0 } \cup { k * CHUNK_SIZE_LIMIT - 1024 * 1024 : k \in 1..MaxChunks }

ProbeDurations == { Sec(600) }

Files(v) ==
    IF v = "tiled"
    THEN { [decodable |-> FALSE, duration |-> 0, size |-> 0] }
         \cup { [decodable |-> TRUE, duration |-> d, size |-> 0] : d \in Durations }
    ELSE { [decodable |-> FALSE, duration |-> 0, size |-> s] : s \in Sizes }
         \cup { [decodable |-> TRUE, duration |-> d, size |-> s] :
                    d \in ProbeDurations, s \in Sizes }

----------------------------------------------------------------------------
(* Scheduler helpers *)

N == Len(chunks)
Tasks == 1..Len(pc)

\* chunkResults.filter(r => r).length
Filled ==
    Cardinality({ j \in SlotsVisited(chunkResults) : chunkResults[j] # <<>> })

\* slot j has been written
Written(j) == \E k \in 1..Len(writeLog) : writeLog[k].slot = j

\* the reads one pass of filter / forEach over chunkResults makes
Reads(by) ==
    { [by |-> by, slot |-> j, written |-> Written(j)] :
        j \in SlotsVisited(chunkResults) }

\* variant of AdmissionBlocked: the comparison is against 0
AdmissionBlockedAlways == completedCount - Filled >= 0

\* while (completedCount - chunkResults.filter(r => r).length >= MAX_CONCURRENCY)
AdmissionBlocked == completedCount - Filled >= MAX_CONCURRENCY

\* tasks that have called transcribeChunk and have not settled
InFlight == { i \in Tasks : pc[i] = "oracle" }

\* variant of SlotOf: results.push(...), a slot per completion
SlotOfPush(i) == completedCount + 1

\* chunkResults[index] = ...
SlotOf(i) == i

\* variant of CatchChunkError: the catch block rethrows
CatchRethrows == [slot |-> <<>>, next |-> "rejected"]

\* variant of CatchChunkError: the catch block only logs
CatchLeavesHole == [slot |-> <<>>, next |-> "done"]

\* the catch block of a task: the slot gets the empty result and the task
\* goes on to completedCount++
CatchChunkError == [slot |-> << EmptyResult >>, next |-> "done"]

\* variant of ChunkPercent: percent from the task's index
ChunkPercentByIndex(i, count, n, v) ==
    IF v = "tiled" THEN (i * 80) \div n + 15
                   ELSE (i * 90) \div n + 5

\* variant of ChunkPercent: scaled to 100 before the base is added
ChunkPercentOver(i, count, n, v) ==
    IF v = "tiled" THEN (count * 100) \div n + 15
                   ELSE (count * 100) \div n + 5

\* Math.floor((completedCount / chunks.length) * 80) + 15   (tiled)
\* Math.floor((completedCount / chunkInfos.length) * 90) + 5 (byte-size)
ChunkPercent(i, count, n, v) ==
    IF v = "tiled" THEN (count * 80) \div n + 15
                   ELSE (count * 90) \div n + 5

\* Promise.all over the tasks
PromiseAll(p) ==
    IF \E i \in DOMAIN p : p[i] = "rejected" THEN "rejected"
    ELSE IF \A i \in DOMAIN p : p[i] = "done" THEN "fulfilled"
    ELSE "pending"

Progress(percent, by) == [percent |-> percent, by |-> by]

----------------------------------------------------------------------------
(* Initial state: a GeminiService and a file, processAudio not yet called *)

Init ==
    /\ variant \in Variants
    /\ file \in Files(variant)
    /\ main = "idle"
    /\ chunks = <<>>
    /\ script = <<>>
    /\ pc = <<>>
    /\ chunkResults = <<>>
    /\ completedCount = 0
    /\ fullResult = <<>>
    /\ progressLog = <<>>
    /\ writeLog = <<>>
    /\ callLog = <<>>
    /\ readLog = {}
    /\ ui = NoUi

----------------------------------------------------------------------------
(* processAudio, up to the first await *)

ProcessAudio ==
    /\ main = "idle"
    /\ main' = "decoding"
    /\ progressLog' = Append(progressLog,
                             Progress(IF variant = "tiled" THEN 5 ELSE 2, 0))
    /\ UNCHANGED <<ui, variant, file, chunks, script, pc, chunkResults,
                   completedCount, fullResult, writeLog, callLog, readLog>>

\* variant of DecodeFails: the failure is swallowed, an empty result returned
DecodeFailsSwallowed ==
    /\ main = "decoding"
    /\ variant = "tiled"
    /\ ~file.decodable
    /\ main' = "returned"
    /\ fullResult' = << EmptyResult >>
    /\ progressLog' = Append(progressLog, Progress(100, 0))
    /\ UNCHANGED <<ui, variant, file, chunks, script, pc, chunkResults,
                   completedCount, writeLog, callLog, readLog>>

\* tiled: decodeAudioData rejects, and so does processAudio
DecodeFails ==
    /\ main = "decoding"
    /\ variant = "tiled"
    /\ ~file.decodable
    /\ main' = "rejected"
    /\ UNCHANGED <<ui, variant, file, chunks, script, pc, chunkResults,
                   completedCount, fullResult, progressLog, writeLog, callLog, readLog>>

\* tiled: decode, segmentation loop, chunks.map(async ...) up to each task's
\* first await (the stagger timer), then await Promise.all(tasks)
DecodeSucceeds ==
    /\ main = "decoding"
    /\ variant = "tiled"
    /\ file.decodable
    /\ LET cs == Segment(file.duration) IN
       /\ chunks' = cs
       /\ script' \in [1..Len(cs) -> OracleOutcomes]
       /\ pc' = [i \in 1..Len(cs) |-> "delay"]
       /\ chunkResults' = [i \in 1..Len(cs) |-> <<>>]
    /\ progressLog' = progressLog \o << Progress(10, 0), Progress(15, 0) >>
    /\ main' = "awaitAll"
    /\ UNCHANGED <<ui, variant, file, completedCount, fullResult, writeLog, callLog, readLog>>

\* byte-size: getAudioDuration (never fails), chunkInfos, then runInParallel
\* starts tasks until the pool holds MAX_CONCURRENCY_POOL promises, where it
\* awaits Promise.race(pool); files of Spec have fewer chunks than that, so
\* there runInParallel goes straight to Promise.all(pool)
ProbeDuration ==
    /\ main = "decoding"
    /\ variant = "bytesize"
    /\ LET cs == ByteChunks(file.size, GetAudioDuration(file)) IN
       /\ chunks' = cs
       /\ script' \in [1..Len(cs) -> OracleOutcomes]
       /\ pc' = [i \in 1..Len(cs) |->
                    IF i <= MAX_CONCURRENCY_POOL THEN "encoding" ELSE "unstarted"]
       /\ chunkResults' = [i \in 1..Len(cs) |-> <<>>]
       /\ main' = IF Len(cs) >= MAX_CONCURRENCY_POOL THEN "poolWait" ELSE "awaitAll"
    /\ progressLog' = Append(progressLog, Progress(5, 0))
    /\ UNCHANGED <<ui, variant, file, completedCount, fullResult, writeLog, callLog, readLog>>

----------------------------------------------------------------------------
(* One chunk task *)

\* variant of StartTask: the stagger timers fire in any order
StartTaskAnyOrder(i) ==
    /\ variant = "tiled"
    /\ pc[i] \in { "delay", "poll" }
    /\ pc' = [pc EXCEPT ![i] = IF AdmissionBlocked THEN "poll" ELSE "encoding"]
    /\ UNCHANGED <<ui, variant, file, main, chunks, script, chunkResults,
                   completedCount, fullResult, progressLog, writeLog, callLog>>
    /\ readLog' = readLog \cup Reads(i)

\* tiled: the stagger timer (index * 250 ms) or a poll timer fires; the task
\* evaluates the admission guard and either polls again or starts encoding.
\* Stagger timers fire in index order.
StartTask(i) ==
    /\ variant = "tiled"
    /\ pc[i] \in { "delay", "poll" }
    /\ pc[i] = "delay" => \A j \in 1..(i - 1) : pc[j] # "delay"
    /\ pc' = [pc EXCEPT ![i] = IF AdmissionBlocked THEN "poll" ELSE "encoding"]
    /\ UNCHANGED <<ui, variant, file, main, chunks, script, chunkResults,
                   completedCount, fullResult, progressLog, writeLog, callLog>>
    /\ readLog' = readLog \cup Reads(i)

\* the FileReader finishes; the task calls transcribeChunk
EncodeDone(i) ==
    /\ pc[i] = "encoding"
    /\ pc' = [pc EXCEPT ![i] = "oracle"]
    /\ callLog' = Append(callLog, i)
    /\ UNCHANGED <<ui, variant, file, main, chunks, script, chunkResults,
                   completedCount, fullResult, progressLog, writeLog, readLog>>

\* transcribeChunk resolves: slot write, completedCount++, onProgress
TranscribeReturns(i) ==
    /\ pc[i] = "oracle"
    /\ ~script[i].throws
    /\ pc' = [pc EXCEPT ![i] = "done"]
    /\ chunkResults' = [chunkResults EXCEPT ![SlotOf(i)] = << script[i].value >>]
    /\ writeLog' = Append(writeLog, [slot |-> SlotOf(i), by |-> i])
    /\ completedCount' = completedCount + 1
    /\ progressLog' = Append(progressLog,
            Progress(ChunkPercent(i, completedCount + 1, N, variant), i))
    /\ UNCHANGED <<ui, variant, file, main, chunks, script, fullResult, callLog, readLog>>

\* transcribeChunk rejects: the catch block, completedCount++, onProgress
TranscribeThrows(i) ==
    /\ pc[i] = "oracle"
    /\ script[i].throws
    /\ LET c == CatchChunkError IN
       /\ pc' = [pc EXCEPT ![i] = c.next]
       /\ IF c.slot # <<>>
          THEN /\ chunkResults' = [chunkResults EXCEPT ![SlotOf(i)] = c.slot]
               /\ writeLog' = Append(writeLog, [slot |-> SlotOf(i), by |-> i])
          ELSE UNCHANGED <<chunkResults, writeLog>>
       /\ IF c.next = "done"
          THEN /\ completedCount' = completedCount + 1
               /\ progressLog' = Append(progressLog,
                      Progress(ChunkPercent(i, completedCount + 1, N, variant), i))
          ELSE UNCHANGED <<completedCount, progressLog>>
    /\ UNCHANGED <<ui, variant, file, main, chunks, script, fullResult, callLog, readLog>>

----------------------------------------------------------------------------
(* processAudio after await Promise.all(tasks): reconcile, sort, return *)

AwaitAll ==
    /\ main = "awaitAll"
    /\ PromiseAll(pc) # "pending"
    /\ IF PromiseAll(pc) = "rejected"
       THEN /\ main' = "rejected"
            /\ UNCHANGED <<fullResult, progressLog, readLog>>
       ELSE /\ main' = "returned"
            /\ fullResult' = << Reconcile(chunkResults, variant) >>
            /\ readLog' = readLog \cup Reads(0)
            /\ progressLog' = progressLog \o
                  << Progress(IF variant = "bytesize" THEN 95 ELSE 98, 0),
                     Progress(100, 0) >>
    /\ UNCHANGED <<ui, variant, file, chunks, script, pc, chunkResults,
                   completedCount, writeLog, callLog>>

Next ==
    \/ ProcessAudio
    \/ DecodeFails
    \/ DecodeSucceeds
    \/ ProbeDuration
    \/ \E i \in Tasks : StartTask(i)
    \/ \E i \in Tasks : EncodeDone(i)
    \/ \E i \in Tasks : TranscribeReturns(i)
    \/ \E i \in Tasks : TranscribeThrows(i)
    \/ AwaitAll

Spec == Init /\ [][Next]_vars

\* a timer, a FileReader event or an oracle promise of some task is ready
TaskStep ==
    \E i \in Tasks : \/ StartTask(i)
                     \/ EncodeDone(i)
                     \/ TranscribeReturns(i)
                     \/ TranscribeThrows(i)

\* the enabling condition of AwaitAll: Promise.all(tasks) has settled
AwaitAllReady == main = "awaitAll" /\ PromiseAll(pc) # "pending"

\* the event loop runs every callback that is ready (timers, FileReader
\* events, promise reactions), and every oracle call settles.  AwaitAll
\* falsifies AwaitAllReady and nothing else does, so its weak fairness is
\* []<>~AwaitAllReady.
FairSpec ==
    /\ Spec
    /\ WF_vars(ProcessAudio \/ DecodeFails \/ DecodeSucceeds \/ ProbeDuration)
    /\ WF_vars(TaskStep)
    /\ []<>(~AwaitAllReady)

----------------------------------------------------------------------------
(* The segmentation loops on their own: decode, then the loop *)

MaxWindows == 3

\* window, step and overlap of the loop of each duration-windowed variant
SegWindow(v) ==
    CASE v = "tiled"   -> CHUNK_DURATION
      [] v = "discard" -> CHUNK_DURATION_DISCARD
      [] v = "fuzzy"   -> CHUNK_DURATION_LIMIT + OVERLAP_DURATION_FUZZY

SegStep(v) ==
    CASE v = "tiled"   -> STEP_SIZE
      [] v = "discard" -> STEP_SIZE_DISCARD
      [] v = "fuzzy"   -> CHUNK_DURATION_LIMIT

SegOverlap(v) == SegWindow(v) - SegStep(v)

SegVariants == { "tiled", "discard", "fuzzy" }

\* decoded durations on both sides of, and at, every multiple of the step
\* and every multiple of the step plus the overlap
SegDurations(v) ==
    { d \in { k * SegStep(v) + b + e :
                k \in 0..MaxWindows, b \in { 0, SegOverlap(v) }, e \in { -1, 0, 1 } } :
        d >= 0 }

SegInit ==
    /\ variant \in SegVariants
    /\ file \in { [decodable |-> TRUE, duration |-> d, size |-> 0] :
                     d \in SegDurations(variant) }
    /\ main = "decoding"
    /\ chunks = <<>>
    /\ script = <<>>
    /\ pc = <<>>
    /\ chunkResults = <<>>
    /\ completedCount = 0
    /\ fullResult = <<>>
    /\ progressLog = <<>>
    /\ writeLog = <<>>
    /\ callLog = <<>>
    /\ readLog = {}
    /\ ui = NoUi

\* decodeAudioData resolves and the loop fills chunks
SegmentAudio ==
    /\ main = "decoding"
    /\ chunks' = Windows(variant, file.duration)
    /\ main' = "segmented"
    /\ UNCHANGED <<ui, variant, file, script, pc, chunkResults, completedCount,
                   fullResult, progressLog, writeLog, callLog, readLog>>

SegNext == SegmentAudio

SegSpec == SegInit /\ [][SegNext]_vars

----------------------------------------------------------------------------
(* The reconcilers on their own: all tasks settled, then merge and sort *)

MaxResults == 3

RecVariants == { "tiled", "discard" }

\* a line of a chunk result; the tag makes every line distinct
RecLine(tag, s, e) == TranscriptLine("S", TextHello, tag, s, e)

\* chunk results whose relative starts lie at and next to the bounds the
\* reconcilers compare with, not in start order
RecResults(v) ==
    IF v = "tiled"
    THEN { TranscriptionResult(
             << RecLine("t1", 0, Sec(5)),
                RecLine("t2", STEP_SIZE - 1, STEP_SIZE + Sec(3)) >>,
             << VocabularyItem(WordData, "d") >>),
           TranscriptionResult(
             << RecLine("t3", STEP_SIZE, STEP_SIZE + Sec(2)),
                RecLine("t4", Sec(10), Sec(12)) >>,
             << VocabularyItem(WordTerm, "first") >>),
           TranscriptionResult(
             << RecLine("t5", CHUNK_DURATION - 1, CHUNK_DURATION),
                RecLine("t6", STEP_SIZE + 1, STEP_SIZE + Sec(1)) >>,
             << VocabularyItem(WordTermLower, "second"),
                VocabularyItem(WordTerm, "third") >>),
           TranscriptionResult(
             << RecLine("t7", STEP_SIZE - Tenths(1), STEP_SIZE + Sec(2)),
                RecLine("t8", Tenths(1) \div 2, Sec(2)) >>, <<>>),
           TranscriptionResult(
             << RecLine("t9", Sec(20), Sec(22)),
                RecLine("t10", Sec(20), Sec(21)) >>, <<>>) }
    ELSE { TranscriptionResult(
             << RecLine("d1", 0, Sec(5)),
                RecLine("d2", OVERLAP_DURATION_DISCARD - 1,
                              OVERLAP_DURATION_DISCARD + Sec(3)) >>,
             << VocabularyItem(WordData, "d") >>),
           TranscriptionResult(
             << RecLine("d3", OVERLAP_DURATION_DISCARD,
                              OVERLAP_DURATION_DISCARD + Sec(2)),
                RecLine("d4", Sec(1), Sec(2)) >>,
             << VocabularyItem(WordTerm, "first") >>),
           TranscriptionResult(
             << RecLine("d5", CHUNK_DURATION_DISCARD - 1, CHUNK_DURATION_DISCARD),
                RecLine("d6", STEP_SIZE_DISCARD, STEP_SIZE_DISCARD + Sec(1)) >>,
             << VocabularyItem(WordTermLower, "second"),
                VocabularyItem(WordTerm, "third") >>),
           TranscriptionResult(
             << RecLine("d7", CHUNK_DURATION_DISCARD, CHUNK_DURATION_DISCARD + Sec(2)),
                RecLine("d8", CHUNK_DURATION_DISCARD, CHUNK_DURATION_DISCARD + Sec(1)) >>,
             <<>>) }

\* after await Promise.all(tasks): n full windows, every task passed the
\* admission guard before any slot was written, the oracle calls were made
\* and resolved in index order
RecInit ==
    /\ variant \in RecVariants
    /\ \E n \in 1..MaxResults :
          /\ chunkResults \in [1..n -> { << r >> : r \in RecResults(variant) }]
          /\ chunks = [i \in 1..n |-> [start |-> (i - 1) * SegStep(variant),
                                        duration |-> SegWindow(variant)]]
          /\ file = [decodable |-> TRUE, size |-> 0,
                     duration |-> (n - 1) * SegStep(variant) + SegWindow(variant)]
          /\ pc = [i \in 1..n |-> "done"]
          /\ completedCount = n
          /\ writeLog = [i \in 1..n |-> [slot |-> i, by |-> i]]
          /\ callLog = [i \in 1..n |-> i]
          /\ progressLog = << Progress(5, 0), Progress(10, 0), Progress(15, 0) >>
                \o [i \in 1..n |-> Progress((i * 80) \div n + 15, i)]
    /\ script = [i \in DOMAIN chunkResults |-> OracleReturns(chunkResults[i][1])]
    /\ main = "awaitAll"
    /\ fullResult = <<>>
    /\ readLog = {}
    /\ ui = NoUi

\* chunkResults.forEach(...), fullResult.transcript.sort(...), return
ReconcileResults ==
    /\ main = "awaitAll"
    /\ fullResult' = << Reconcile(chunkResults, variant) >>
    /\ readLog' = readLog \cup Reads(0)
    /\ progressLog' = progressLog \o << Progress(98, 0), Progress(100, 0) >>
    /\ main' = "returned"
    /\ UNCHANGED <<ui, variant, file, chunks, script, pc, chunkResults,
                   completedCount, writeLog, callLog>>

RecNext == ReconcileResults

RecSpec == RecInit /\ [][RecNext]_vars

----------------------------------------------------------------------------
(* Recordings of about one window: decode, segmentation, tasks, reconcile   *)

\* decoded durations up to one window, and one just above it
ShortDurations(v) ==
    { 1, Sec(80), SegWindow(v) - 1, SegWindow(v), SegWindow(v) + 1 }

ShortInit ==
    /\ variant \in RecVariants
    /\ file \in { [decodable |-> TRUE, duration |-> d, size |-> 0] :
                     d \in ShortDurations(variant) }
    /\ main = "decoding"
    /\ chunks = <<>>
    /\ script = <<>>
    /\ pc = <<>>
    /\ chunkResults = <<>>
    /\ completedCount = 0
    /\ fullResult = <<>>
    /\ progressLog = <<>>
    /\ writeLog = <<>>
    /\ callLog = <<>>
    /\ readLog = {}
    /\ ui = NoUi

\* chunks.map(async ...) and the tasks, run one after the other in index
\* order: every oracle call returns, every task writes its slot, counts and
\* reports; processAudio is at await Promise.all(tasks)
RunTasks ==
    /\ main = "segmented"
    /\ chunkResults' \in [1..N -> { << r >> : r \in RecResults(variant) }]
    /\ script' = [i \in 1..N |-> OracleReturns(chunkResults'[i][1])]
    /\ pc' = [i \in 1..N |-> "done"]
    /\ completedCount' = N
    /\ writeLog' = [i \in 1..N |-> [slot |-> i, by |-> i]]
    /\ callLog' = [i \in 1..N |-> i]
    /\ progressLog' = progressLog \o << Progress(15, 0) >>
          \o [i \in 1..N |-> Progress((i * 80) \div N + 15, i)]
    /\ main' = "awaitAll"
    /\ UNCHANGED <<ui, variant, file, chunks, fullResult, readLog>>

ShortNext == SegmentAudio \/ RunTasks \/ ReconcileResults

ShortSpec == ShortInit /\ [][ShortNext]_vars

----------------------------------------------------------------------------
(* App: file selection and processTranscription.  processAudio is the       *)
(* service call: it reports progress while it is pending and then resolves  *)
(* or rejects.  ui holds the useState values file, status and result, the   *)
(* state of the processAudio promise and the number of calls made.          *)

MaxRuns == 4

\* the files the user can pick; 0 stands for null (no file)
FileIds == 1..3

\* percentages processAudio reports after its first call of onProgress
LaterPercents == { 10, 40, 70, 100 }

\* the first onProgress call of processAudio, made before its first await
FirstPercent == 5

AppStatus(step, progress) == [step |-> step, progress |-> progress]

AppInit ==
    /\ variant = "tiled"
    /\ file = [decodable |-> TRUE, duration |-> 0, size |-> 0]
    /\ main = "idle"
    /\ chunks = <<>>
    /\ script = <<>>
    /\ pc = <<>>
    /\ chunkResults = <<>>
    /\ completedCount = 0
    /\ fullResult = <<>>
    /\ progressLog = <<>>
    /\ writeLog = <<>>
    /\ callLog = <<>>
    /\ readLog = {}
    /\ ui = [component |-> "App", file |-> 0, status |-> AppStatus("idle", 0),
             result |-> <<>>, promise |-> "none", runs |-> 0,
             event |-> "mount"]

\* the file input is rendered: !result && status.step !== 'transcribing'
FileInputShown == ui.result = <<>> /\ ui.status.step # "transcribing"

\* the start button is rendered: file && status.step === 'idle'
StartButtonShown == ui.file # 0 /\ ui.status.step = "idle"

\* variant of HandleFileChange: the result of the last run is kept
HandleFileChangeKeepsStatus(f) ==
    /\ FileInputShown
    /\ ui' = IF f = 0 THEN ui
             ELSE [ui EXCEPT !.file = f, !.event = "fileChange"]
    /\ UNCHANGED <<variant, file, main, chunks, script, pc, chunkResults,
                   completedCount, fullResult, progressLog, writeLog, callLog,
                   readLog>>

\* onChange of the file input; f = 0 is a change event without a file
HandleFileChange(f) ==
    /\ FileInputShown
    /\ ui' = IF f = 0 THEN ui
             ELSE [ui EXCEPT !.file = f, !.result = <<>>,
                             !.status = AppStatus("idle", 0),
                             !.event = "fileChange"]
    /\ UNCHANGED <<variant, file, main, chunks, script, pc, chunkResults,
                   completedCount, fullResult, progressLog, writeLog, callLog,
                   readLog>>

\* click on the start button: setStatus('uploading', 5), then processAudio
\* runs up to its first await and its first onProgress call makes the step
\* 'transcribing' in the same batch of updates
ProcessTranscription ==
    /\ StartButtonShown
    /\ ui.runs < MaxRuns
    /\ ui' = [ui EXCEPT !.status = AppStatus("transcribing", FirstPercent),
                        !.promise = "pending",
                        !.runs = @ + 1,
                        !.event = "start"]
    /\ UNCHANGED <<variant, file, main, chunks, script, pc, chunkResults,
                   completedCount, fullResult, progressLog, writeLog, callLog,
                   readLog>>

\* (msg, prog) => setStatus(prev => ({ ...prev, progress: prog,
\* step: 'transcribing' }))
OnProgress(percent) ==
    /\ ui.promise = "pending"
    /\ ui' = [ui EXCEPT !.status = AppStatus("transcribing", percent),
                        !.event = "progress"]
    /\ UNCHANGED <<variant, file, main, chunks, script, pc, chunkResults,
                   completedCount, fullResult, progressLog, writeLog, callLog,
                   readLog>>

\* processAudio resolves: setResult(finalResult), setStatus('completed', 100)
ProcessAudioResolves(finalResult) ==
    /\ ui.promise = "pending"
    /\ ui' = [ui EXCEPT !.result = << finalResult >>,
                        !.status = AppStatus("completed", 100),
                        !.promise = "resolved",
                        !.event = "resolved"]
    /\ UNCHANGED <<variant, file, main, chunks, script, pc, chunkResults,
                   completedCount, fullResult, progressLog, writeLog, callLog,
                   readLog>>

\* processAudio rejects: the catch block, setStatus('error', 0)
ProcessAudioRejects ==
    /\ ui.promise = "pending"
    /\ ui' = [ui EXCEPT !.status = AppStatus("error", 0),
                        !.promise = "rejected",
                        !.event = "rejected"]
    /\ UNCHANGED <<variant, file, main, chunks, script, pc, chunkResults,
                   completedCount, fullResult, progressLog, writeLog, callLog,
                   readLog>>

AppNext ==
    \/ \E f \in { 0 } \cup FileIds : HandleFileChange(f)
    \/ ProcessTranscription
    \/ \E percent \in LaterPercents : OnProgress(percent)
    \/ \E r \in { EmptyResult, ResultA } : ProcessAudioResolves(r)
    \/ ProcessAudioRejects

AppSpec == AppInit /\ [][AppNext]_vars

----------------------------------------------------------------------------
(* The history App: handleShiftTimestamps on the active history item.       *)
(* Times are whole seconds.  ui holds the history list, the active item     *)
(* (null is <<>>) and the last event with its arguments.                    *)

MaxStart == 4
MaxShift == 2

\* formatTime is imported from ./utils; it is kept as an application
FormatTime(seconds) == << "formatTime", seconds >>

HistoryLine(text, startTime) ==
    [text |-> text, startTime |-> startTime, timestamp |-> FormatTime(startTime)]

\* Math.max(0, x)
MaxZero(x) == IF x > 0 THEN x ELSE 0

\* variant of ShiftTimestamps: without Math.max(0, ...)
ShiftTimestampsUnclamped(lines, startIndex, timeDelta) ==
    [ idx \in 1..Len(lines) |->
        IF idx - 1 >= startIndex
        THEN [lines[idx] EXCEPT
                !.startTime = lines[idx].startTime + timeDelta,
                !.timestamp = FormatTime(lines[idx].startTime + timeDelta)]
        ELSE lines[idx] ]

\* activeItem.lines.map((line, idx) => idx >= startIndex ? {...} : line);
\* idx is 0-based in the code, positions of the sequence are 1-based
ShiftTimestamps(lines, startIndex, timeDelta) ==
    [ idx \in 1..Len(lines) |->
        IF idx - 1 >= startIndex
        THEN [lines[idx] EXCEPT
                !.startTime = MaxZero(lines[idx].startTime + timeDelta),
                !.timestamp =
                    FormatTime(MaxZero(lines[idx].startTime + timeDelta))]
        ELSE lines[idx] ]

\* the items loaded from the database: one with three lines, not in start
\* order, and one with two lines
HistoryItems ==
    << [id |-> 1, lines |-> << HistoryLine("a", 1), HistoryLine("b", 3),
                               HistoryLine("c", 2) >>],
       [id |-> 2, lines |-> << HistoryLine("d", 0), HistoryLine("e", 4) >>] >>

HistoryInit ==
    /\ variant = "tiled"
    /\ file = [decodable |-> TRUE, duration |-> 0, size |-> 0]
    /\ main = "idle"
    /\ chunks = <<>>
    /\ script = <<>>
    /\ pc = <<>>
    /\ chunkResults = <<>>
    /\ completedCount = 0
    /\ fullResult = <<>>
    /\ progressLog = <<>>
    /\ writeLog = <<>>
    /\ callLog = <<>>
    /\ readLog = {}
    /\ ui = [component |-> "HistoryApp", history |-> HistoryItems,
             activeItem |-> <<>>, event |-> [name |-> "mount"]]

\* HistoryList onSelectItem, rendered while no item is active
SelectItem(k) ==
    /\ ui.activeItem = <<>>
    /\ ui' = [ui EXCEPT !.activeItem = << ui.history[k] >>,
                        !.event = [name |-> "select"]]
    /\ UNCHANGED <<variant, file, main, chunks, script, pc, chunkResults,
                   completedCount, fullResult, progressLog, writeLog, callLog,
                   readLog>>

\* the close button of the active item: setActiveItem(null)
CloseItem ==
    /\ ui.activeItem # <<>>
    /\ ui' = [ui EXCEPT !.activeItem = <<>>, !.event = [name |-> "close"]]
    /\ UNCHANGED <<variant, file, main, chunks, script, pc, chunkResults,
                   completedCount, fullResult, progressLog, writeLog, callLog,
                   readLog>>

\* handleShiftTimestamps(startIndex, timeDelta), called by the viewer of the
\* active item; start times are kept within MaxStart
HandleShiftTimestamps(startIndex, timeDelta) ==
    /\ ui.activeItem # <<>>
    /\ LET activeItem == ui.activeItem[1]
           updatedLines ==
               ShiftTimestamps(activeItem.lines, startIndex, timeDelta)
           updatedItem == [activeItem EXCEPT !.lines = updatedLines]
       IN  /\ \A idx \in 1..Len(updatedLines) :
                 updatedLines[idx].startTime <= MaxStart
           /\ ui' = [ui EXCEPT
                       !.activeItem = << updatedItem >>,
                       !.history =
                           [ h \in 1..Len(ui.history) |->
                               IF ui.history[h].id = updatedItem.id
                               THEN updatedItem ELSE ui.history[h] ],
                       !.event = [name |-> "shift", startIndex |-> startIndex,
                                  timeDelta |-> timeDelta]]
    /\ UNCHANGED <<variant, file, main, chunks, script, pc, chunkResults,
                   completedCount, fullResult, progressLog, writeLog, callLog,
                   readLog>>

HistoryNext ==
    \/ \E k \in 1..Len(HistoryItems) : SelectItem(k)
    \/ CloseItem
    \/ \E startIndex \in 0..3, timeDelta \in (0 - MaxShift)..MaxShift :
          HandleShiftTimestamps(startIndex, timeDelta)

HistorySpec == HistoryInit /\ [][HistoryNext]_vars

----------------------------------------------------------------------------
(* TranscriptViewer: readingIndex under Prev, Next and row clicks.  The     *)
(* lines prop keeps its length while the viewer is mounted (a timestamp     *)
(* shift maps the lines one to one), so ui holds lines.length, readingIndex *)
(* (0-based, as in the code) and the last event.                            *)

MaxLines == 8

ViewerInit ==
    /\ variant = "tiled"
    /\ file = [decodable |-> TRUE, duration |-> 0, size |-> 0]
    /\ main = "idle"
    /\ chunks = <<>>
    /\ script = <<>>
    /\ pc = <<>>
    /\ chunkResults = <<>>
    /\ completedCount = 0
    /\ fullResult = <<>>
    /\ progressLog = <<>>
    /\ writeLog = <<>>
    /\ callLog = <<>>
    /\ readLog = {}
    /\ \E length \in 0..MaxLines :
          ui = [component |-> "TranscriptViewer", length |-> length,
                readingIndex |-> 0, event |-> "mount"]

\* click on row index: handleFocusSegment(index), index from lines.map
HandleFocusSegment(index) ==
    /\ index \in 0..(ui.length - 1)
    /\ ui' = [ui EXCEPT !.readingIndex = index, !.event = "click"]
    /\ UNCHANGED <<variant, file, main, chunks, script, pc, chunkResults,
                   completedCount, fullResult, progressLog, writeLog, callLog,
                   readLog>>

\* ArrowUp: setReadingIndex(prev => Math.max(0, prev - 1))
HandlePrev ==
    /\ ui' = [ui EXCEPT !.readingIndex = MaxZero(ui.readingIndex - 1),
                        !.event = "prev"]
    /\ UNCHANGED <<variant, file, main, chunks, script, pc, chunkResults,
                   completedCount, fullResult, progressLog, writeLog, callLog,
                   readLog>>

\* ArrowDown: setReadingIndex(prev => Math.min(lines.length - 1, prev + 1))
HandleNext ==
    /\ ui' = [ui EXCEPT
                !.readingIndex = Min(ui.length - 1, ui.readingIndex + 1),
                !.event = "next"]
    /\ UNCHANGED <<variant, file, main, chunks, script, pc, chunkResults,
                   completedCount, fullResult, progressLog, writeLog, callLog,
                   readLog>>

ViewerNext ==
    \/ \E index \in 0..(MaxLines - 1) : HandleFocusSegment(index)
    \/ HandlePrev
    \/ HandleNext

ViewerSpec == ViewerInit /\ [][ViewerNext]_vars

----------------------------------------------------------------------------
(* The fuzzy-dedup reconcilers on their own (fuzzy and byte-size variants) *)

DedupVariants == { "fuzzy", "bytesize" }

\* epsilon and prefix length of isDuplicate in each variant
Epsilon(v) == IF v = "fuzzy" THEN STRICT_EPSILON ELSE FUZZY_EPSILON
PrefixLength(v) == IF v = "fuzzy" THEN STRICT_PREFIX ELSE FUZZY_PREFIX

\* two texts equal case-insensitively in their first 10 characters and
\* different in their first 15
TextOne ==
    <<"H","e","l","l","o"," ","w","o","r","l","d",","," ","o","n","e">>
TextTwo ==
    <<"h","e","l","l","o"," ","W","o","r","l","d",","," ","t","w","o">>

\* results of chunk i: the speaker names the chunk, the chinese field the
\* line, so that every line of a run is a distinct record; starts differ by
\* one hundredth less than epsilon, by epsilon, and by nothing
DedupResults(v, i) ==
    LET L(tag, text, s) == TranscriptLine(ToString(i), text, tag, s, s + Sec(1)) IN
    { TranscriptionResult(
        << L("x1", TextOne, Sec(10)),
           L("x2", ToLowerCase(TextOne), Sec(10) + Epsilon(v) - 1) >>,
        << VocabularyItem(WordTerm, "first") >>),
      TranscriptionResult(
        << L("x3", TextOne, Sec(10) + Epsilon(v)),
           L("x4", TextTwo, Sec(10)) >>,
        << VocabularyItem(WordTermLower, "second") >>),
      TranscriptionResult(
        << L("x5", TextBye, Sec(10)),
           L("x6", TextOne, Sec(10) + 2 * Epsilon(v) - 1) >>, <<>>) }

\* after await Promise.all(tasks) (fuzzy) or await runInParallel()
\* (byte-size): n chunks, the oracle calls made and resolved in index order
DedupInit ==
    /\ variant \in DedupVariants
    /\ \E n \in 1..MaxResults :
          /\ file = IF variant = "fuzzy"
                    THEN [decodable |-> TRUE, size |-> 0,
                          duration |-> n * CHUNK_DURATION_LIMIT]
                    ELSE [decodable |-> TRUE, duration |-> Sec(600),
                          size |-> n * CHUNK_SIZE_LIMIT - 1024 * 1024]
          /\ chunkResults \in
                { f \in [1..n -> UNION { { << r >> : r \in DedupResults(variant, i) }
                                          : i \in 1..n }] :
                    \A i \in 1..n : f[i][1] \in DedupResults(variant, i) }
          /\ pc = [i \in 1..n |-> "done"]
          /\ completedCount = n
          /\ writeLog = [i \in 1..n |-> [slot |-> i, by |-> i]]
          /\ callLog = [i \in 1..n |-> i]
          /\ progressLog =
                (IF variant = "fuzzy"
                 THEN << Progress(5, 0), Progress(10, 0), Progress(15, 0) >>
                 ELSE << Progress(2, 0), Progress(5, 0) >>)
                \o [i \in 1..n |->
                      Progress(IF variant = "fuzzy" THEN (i * 80) \div n + 15
                               ELSE ChunkPercent(i, i, n, variant), i)]
    /\ chunks = IF variant = "fuzzy"
                THEN SegmentFuzzyFrom(0, file.duration)
                ELSE ByteChunks(file.size, GetAudioDuration(file))
    /\ script = [i \in DOMAIN chunkResults |-> OracleReturns(chunkResults[i][1])]
    /\ main = "awaitAll"
    /\ fullResult = <<>>
    /\ readLog = {}
    /\ ui = NoUi

DedupNext == AwaitAll

DedupSpec == DedupInit /\ [][DedupNext]_vars

----------------------------------------------------------------------------
(* The byte-size chunking on its own: processAudio awaiting getAudioDuration *)

\* file sizes of 1 .. MaxChunks chunks: 1 KiB, and for each count a last
\* chunk of 1 KiB, of 4 MiB and of the full CHUNK_SIZE_LIMIT
ByteSizes ==
    { 1024 }
    \cup { k * CHUNK_SIZE_LIMIT - 1024 * 1024 : k \in 1..MaxChunks }
    \cup { k * CHUNK_SIZE_LIMIT : k \in 1..MaxChunks }
    \cup { k * CHUNK_SIZE_LIMIT + 1024 : k \in 1..(MaxChunks - 1) }

\* decoded durations of 600 s and 59.99 s, or the 128 kbps estimate
ByteFiles ==
    { [decodable |-> FALSE, duration |-> 0, size |-> s] : s \in ByteSizes }
    \cup { [decodable |-> TRUE, duration |-> d, size |-> s] :
             d \in { Sec(600), Sec(60) - 1 }, s \in ByteSizes }

ByteInit ==
    /\ variant = "bytesize"
    /\ file \in ByteFiles
    /\ main = "decoding"
    /\ chunks = <<>>
    /\ script = <<>>
    /\ pc = <<>>
    /\ chunkResults = <<>>
    /\ completedCount = 0
    /\ fullResult = <<>>
    /\ progressLog = << Progress(2, 0) >>
    /\ writeLog = <<>>
    /\ callLog = <<>>
    /\ readLog = {}
    /\ ui = NoUi

ByteNext == ProbeDuration

ByteSpec == ByteInit /\ [][ByteNext]_vars

----------------------------------------------------------------------------
(* runInParallel of the byte-size variant on files of more chunks than the  *)
(* pool size: the chunk list is computed and the loop has started its first  *)
(* tasks                                                                     *)

MaxPoolChunks == 7

\* the loop of runInParallel is at its first await, Promise.race(pool)
\* (Promise.all(pool) when the loop ended before the pool was full): tasks
\* 0 .. 4 are started, their FileReaders have finished in index order and
\* their oracle calls are pending.  The oracle rejects the first call or none.
PoolInit ==
    /\ variant = "bytesize"
    /\ \E n \in 1..MaxPoolChunks :
          /\ file = [decodable |-> TRUE, duration |-> Sec(600),
                     size |-> n * CHUNK_SIZE_LIMIT - 1024 * 1024]
          /\ script \in { [i \in 1..n |->
                              IF i = 1 /\ first THEN OracleThrows
                              ELSE OracleReturns(ResultA)] :
                           first \in BOOLEAN }
          /\ pc = [i \in 1..n |->
                      IF i <= MAX_CONCURRENCY_POOL THEN "oracle" ELSE "unstarted"]
          /\ chunkResults = [i \in 1..n |-> <<>>]
          /\ callLog = [i \in 1..Min(n, MAX_CONCURRENCY_POOL) |-> i]
          /\ main = IF n >= MAX_CONCURRENCY_POOL THEN "poolWait" ELSE "awaitAll"
    /\ chunks = ByteChunks(file.size, GetAudioDuration(file))
    /\ completedCount = 0
    /\ fullResult = <<>>
    /\ progressLog = << Progress(2, 0), Progress(5, 0) >>
    /\ writeLog = <<>>
    /\ readLog = {}
    /\ ui = NoUi

\* a promise of the pool has settled: Promise.race(pool) fulfils and the loop
\* goes on.  Nothing is removed from the pool, so every later
\* Promise.race(pool) finds the settled promise and fulfils within the same
\* run of the microtask queue: the loop starts every remaining task, and
\* runInParallel reaches Promise.all(pool), before any other callback runs.
PoolResume ==
    /\ main = "poolWait"
    /\ \E i \in DOMAIN pc : pc[i] = "done"
    /\ pc' = [i \in DOMAIN pc |-> IF pc[i] = "unstarted" THEN "encoding" ELSE pc[i]]
    /\ main' = "awaitAll"
    /\ UNCHANGED <<ui, variant, file, chunks, script, chunkResults, completedCount,
                   fullResult, progressLog, writeLog, callLog, readLog>>

PoolNext ==
    \/ \E i \in Tasks : EncodeDone(i)
    \/ \E i \in Tasks : TranscribeReturns(i)
    \/ \E i \in Tasks : TranscribeThrows(i)
    \/ PoolResume
    \/ AwaitAll

PoolSpec == PoolInit /\ [][PoolNext]_vars

----------------------------------------------------------------------------
(* transcribeChunk's timestamp re-parse, in a run with a single chunk: the  *)
(* oracle's JSON holds one or two lines whose timestamp fields are numbers,  *)
(* strings, null or absent.  After the re-parse a timestamp is a JavaScript  *)
(* number (NaN or thousandths of a second).                                  *)

MaxTimeLen == 4

ParseVariants == { "tiled", "discard" }

\* variant of ParseTime: the colon forms are not recognised
ParseTimeNoColon(v, time) ==
    IF time.type = "number" THEN Num(time.val)
    ELSE IF time.type \in { "undefined", "null" } THEN Num(0)
    ELSE OrZero(ParseFloat(time.str))

ParseTime(v, time) ==
    IF v = "tiled" THEN ParseTimeToSeconds(time) ELSE ParseTimeToSecondsPlain(time)

TimeAlphabet == { "0", "1", "2", ":", ".", "a", " " }

\* every string over TimeAlphabet of length 0 .. MaxTimeLen, the examples
\* of a minutes and an hours string, and the values that are not strings
TimeInputs ==
    { String(str) : str \in UNION { [1..n -> TimeAlphabet] : n \in 0..MaxTimeLen } }
    \cup { String(<<"0","1",":","0","2">>),
           String(<<"0","1",":","0","2",":","0","3">>),
           String(<<"a","b","c">>),
           String(<<"4","5",".","5">>),
           Number(Milli(45) + 500), Number(0), Undefined, Null }

\* timestamps of the two-line responses: 70, "1:05", "a:1" and "10"
SortTimes ==
    { Number(Milli(70)), String(<<"1",":","0","5">>),
      String(<<"a",":","1">>), String(<<"1","0">>) }

Responses ==
    { TranscriptionResult(<< TranscriptLine("S", TextHello, "r1", t, t) >>, <<>>) :
        t \in TimeInputs }
    \cup { TranscriptionResult(<< TranscriptLine("S", TextHello, "r1", a, a),
                                  TranscriptLine("S", TextBye, "r2", b, b) >>, <<>>) :
             a \in SortTimes, b \in SortTimes }

\* an 80 s recording: one chunk, its task awaiting transcribeChunk
ParseInit ==
    /\ variant \in ParseVariants
    /\ file = [decodable |-> TRUE, duration |-> Sec(80), size |-> 0]
    /\ chunks = Windows(variant, file.duration)
    /\ main = "awaitAll"
    /\ pc = << "oracle" >>
    /\ script \in { << OracleReturns(r) >> : r \in Responses }
    /\ chunkResults = << <<>> >>
    /\ completedCount = 0
    /\ fullResult = <<>>
    /\ progressLog = << Progress(5, 0), Progress(10, 0), Progress(15, 0) >>
    /\ writeLog = <<>>
    /\ callLog = << 1 >>
    /\ readLog = {}
    /\ ui = NoUi

\* parsed.transcript.map(line => ({...line, startTimeInSeconds:
\* parseTimeToSeconds(...), endTimeInSeconds: parseTimeToSeconds(...)}))
Reparse(v, response) ==
    TranscriptionResult(
        [k \in DOMAIN response.transcript |->
            [response.transcript[k] EXCEPT
                !.startTimeInSeconds = ParseTime(v, @),
                !.endTimeInSeconds = ParseTime(v, @)]],
        response.vocabulary)

\* the response arrives: transcribeChunk re-parses the timestamps and
\* returns, the task writes its slot, counts and reports
TranscribeChunkParses ==
    /\ main = "awaitAll"
    /\ pc = << "oracle" >>
    /\ fullResult = <<>>
    /\ pc' = << "done" >>
    /\ chunkResults' = << << Reparse(variant, script[1].value) >> >>
    /\ writeLog' = Append(writeLog, [slot |-> 1, by |-> 1])
    /\ completedCount' = completedCount + 1
    /\ progressLog' = Append(progressLog,
            Progress(((completedCount + 1) * 80) \div N + 15, 1))
    /\ UNCHANGED <<ui, variant, file, main, chunks, script, fullResult, callLog, readLog>>

\* a.startTimeInSeconds - b.startTimeInSeconds as the sort sees it: a NaN
\* result counts as +0
CompareStart(a, b) ==
    IF a.startTimeInSeconds.nan \/ b.startTimeInSeconds.nan THEN 0
    ELSE a.startTimeInSeconds.val - b.startTimeInSeconds.val

\* Array.prototype.sort (stable) of at most two lines
SortByCompare(lines) ==
    IF Len(lines) = 2 /\ CompareStart(lines[1], lines[2]) > 0
    THEN << lines[2], lines[1] >>
    ELSE lines

\* Promise.all fulfils; the only chunk is the first and the last one, so
\* every line is kept with offset 0 added to its timestamps; then the sort
ReturnSingleChunk ==
    /\ main = "awaitAll"
    /\ pc = << "done" >>
    /\ LET result == chunkResults[1][1]
           kept == [k \in DOMAIN result.transcript |->
                      [result.transcript[k] EXCEPT
                          !.startTimeInSeconds = Plus(Num(0), @),
                          !.endTimeInSeconds = Plus(Num(0), @)]]
       IN  fullResult' = << TranscriptionResult(
                               SortByCompare(kept),
                               MergeVocabulary(<<>>, result.vocabulary)) >>
    /\ readLog' = readLog \cup Reads(0)
    /\ progressLog' = progressLog \o << Progress(98, 0), Progress(100, 0) >>
    /\ main' = "returned"
    /\ UNCHANGED <<ui, variant, file, chunks, script, pc, chunkResults,
                   completedCount, writeLog, callLog>>

ParseNext == TranscribeChunkParses \/ ReturnSingleChunk

ParseSpec == ParseInit /\ [][ParseNext]_vars

----------------------------------------------------------------------------
(* Helpers for stating the properties *)

Percents == { progressLog[k].percent : k \in 1..Len(progressLog) }

\* what slot i must hold once task i has settled
ExpectedSlot(i) ==
    IF script[i].throws THEN << EmptyResult >> ELSE << script[i].value >>

\* some pair of tasks settled against index order
OutOfOrderCompletion ==
    \E k, m \in 1..Len(writeLog) : k < m /\ writeLog[k].by > writeLog[m].by

\* lines of chunk i that the tiling policy assigns to chunk i
OwnedPositions(i) ==
    { k \in 1..Len(script[i].value.transcript) :
        i = N \/ script[i].value.transcript[k].startTimeInSeconds < STEP_SIZE }

RECURSIVE SumOver(_, _)
SumOver(S, f) ==
    IF S = {} THEN 0
    ELSE LET x == CHOOSE y \in S : TRUE IN f[x] + SumOver(S \ { x }, f)

Succeeded == { i \in Tasks : ~script[i].throws }

----------------------------------------------------------------------------
(* C1: in the polling scheduler the number of tasks that have called        *)
(* transcribeChunk and not yet settled never exceeds MAX_CONCURRENCY.       *)
C1_AtMostMaxConcurrencyInFlight ==
    variant = "tiled" => Cardinality(InFlight) <= MAX_CONCURRENCY

(* C2: processAudio reconciles and returns only after every chunk task has  *)
(* settled, and a failing oracle call never makes it reject.                *)
C2_ReturnsAfterAllSettled ==
    /\ (main = "returned" \/ fullResult # <<>>) =>
          /\ Len(pc) = N
          /\ \A i \in Tasks : pc[i] = "done"
    /\ Len(pc) > 0 => main # "rejected"

C2_Witness ==
    /\ main = "returned"
    /\ Len(pc) >= 2
    /\ \E i \in Tasks : script[i].throws
    /\ \E i \in Tasks : ~script[i].throws

(* C3: when the oracle call of chunk i throws, slot i becomes the empty     *)
(* result, every other slot is left unchanged, and processAudio resolves.   *)
C3_FailureIsolated ==
    [][ /\ \A i \in Tasks :
              (pc[i] = "oracle" /\ script[i].throws /\ pc'[i] # "oracle") =>
                  /\ chunkResults'[i] = << EmptyResult >>
                  /\ \A j \in Tasks \ { i } : chunkResults'[j] = chunkResults[j]
                  /\ main' # "rejected"
        /\ (main = "awaitAll" /\ main' # "awaitAll") => main' = "returned"
      ]_vars

C3_Witness ==
    /\ main = "returned"
    /\ \E i, j \in Tasks :
          /\ script[i].throws
          /\ chunkResults[i] = << EmptyResult >>
          /\ ~script[j].throws
          /\ chunkResults[j] = << script[j].value >>

(* C4: the returned result holds every line a successful chunk owns under   *)
(* the tiling policy and every first-seen vocabulary word of the successful *)
(* chunks, and nothing else: a failed chunk contributes no line, no word.   *)
C4_FailedChunksContributeNothing ==
    (variant = "tiled" /\ fullResult # <<>>) =>
        LET out == fullResult[1]
            owned == [i \in Succeeded |-> Cardinality(OwnedPositions(i))]
        IN
        /\ \A i \in Succeeded : \A k \in OwnedPositions(i) :
              \E m \in 1..Len(out.transcript) :
                  out.transcript[m] =
                      ShiftLine(script[i].value.transcript[k], (i - 1) * STEP_SIZE)
        /\ Len(out.transcript) = SumOver(Succeeded, owned)
        /\ \A i \in Succeeded : \A k \in 1..Len(script[i].value.vocabulary) :
              \E m \in 1..Len(out.vocabulary) :
                  ToLowerCase(out.vocabulary[m].word)
                      = ToLowerCase(script[i].value.vocabulary[k].word)
        /\ \A m \in 1..Len(out.vocabulary) :
              \E i \in Succeeded : \E k \in 1..Len(script[i].value.vocabulary) :
                  out.vocabulary[m] = script[i].value.vocabulary[k]
        /\ Succeeded = {} => out = EmptyResult

C4_Witness ==
    /\ variant = "tiled"
    /\ fullResult # <<>>
    /\ N = 3
    /\ script[2].throws
    /\ ~script[1].throws /\ ~script[3].throws
    /\ Len(fullResult[1].transcript) >= 3

(* C5 as stated: when decoding of the source audio fails, processAudio      *)
(* rejects, starts no chunk task, returns no result and never reports 100.  *)
C5_DecodeFailureRejects ==
    ~file.decodable =>
        /\ main \in { "idle", "decoding", "rejected" }
        /\ pc = <<>>
        /\ fullResult = <<>>
        /\ 100 \notin Percents

(* C5 amended: the same, for the variant that decodes the whole recording   *)
(* before segmentation; the byte-size variant only probes the duration and  *)
(* falls back to an estimate.                                               *)
C5_DecodeFailureRejectsWhenDecoding ==
    (variant = "tiled" /\ ~file.decodable) =>
        /\ main \in { "idle", "decoding", "rejected" }
        /\ pc = <<>>
        /\ fullResult = <<>>
        /\ 100 \notin Percents

C5_Witness ==
    variant = "tiled" /\ ~file.decodable /\ main = "rejected"

(* C6: the percent values passed to onProgress over one run are             *)
(* non-decreasing, whatever the order in which the chunk tasks complete.    *)
C6_ProgressMonotone ==
    \A k \in 1..(Len(progressLog) - 1) :
        progressLog[k].percent <= progressLog[k + 1].percent

C6_Witness ==
    /\ main = "returned"
    /\ N >= 3
    /\ OutOfOrderCompletion

C8_ResultIndependentOfCompletionOrder ==
    fullResult # <<>> =>
        fullResult[1] = Reconcile([i \in 1..N |-> ExpectedSlot(i)], variant)

C8_Witness ==
    /\ main = "returned"
    /\ OutOfOrderCompletion
    /\ \E i, j \in Tasks : script[i] # script[j]
    /\ fullResult[1].transcript # <<>>

(* C9 as stated: the tasks call transcribeChunk in ascending chunk-index    *)
(* order.                                                                   *)
C9_OracleCallsInIndexOrder ==
    \A k, m \in 1..Len(callLog) : k < m => callLog[k] < callLog[m]

(* C9 amended: the tasks are started (leave the stagger delay, pass the     *)
(* admission guard and begin encoding) in ascending chunk-index order.      *)
C9_TasksStartInIndexOrder ==
    \A i, j \in Tasks :
        (i < j /\ pc[j] \notin { "delay", "unstarted" })
            => pc[i] \notin { "delay", "unstarted" }

C9_Witness ==
    /\ variant = "tiled"
    /\ N >= 3
    /\ pc[1] # "delay" /\ pc[2] # "delay" /\ pc[3] = "delay"
    /\ callLog = << 2 >>

(* C10: each result slot i is written exactly once, only by task i, with    *)
(* either the oracle result or the empty result.                            *)
C10_SlotWrittenOnceByOwner ==
    /\ \A k \in 1..Len(writeLog) : writeLog[k].slot = writeLog[k].by
    /\ \A i \in Tasks :
          /\ Cardinality({ k \in 1..Len(writeLog) : writeLog[k].slot = i })
                = IF pc[i] = "done" THEN 1 ELSE 0
          /\ chunkResults[i] = IF pc[i] = "done" THEN ExpectedSlot(i) ELSE <<>>

C10_Witness ==
    /\ main = "returned"
    /\ N >= 2
    /\ Len(writeLog) = N
    /\ \E i \in Tasks : chunkResults[i] = << EmptyResult >>
    /\ \E i \in Tasks : chunkResults[i] # << EmptyResult >>

(* C11: no component reads a result slot before its owning task has      *)
(* written it: every read by an admission guard or by the reconciler is of *)
(* a written slot, and the reconciler reads every slot.                    *)
C11_NoReadBeforeWrite ==
    /\ \A r \in readLog : r.written
    /\ main = "returned" =>
          { r.slot : r \in { q \in readLog : q.by = 0 } } = 1..N

C11_Witness ==
    /\ main = "returned"
    /\ N >= 2
    /\ \E r \in readLog : r.by \in Tasks /\ r.slot # r.by
    /\ \E r \in readLog : r.by = 0

(* C12: there is no timeout or cancellation: when every encoding and every *)
(* oracle call settles, processAudio returns; as long as some oracle call  *)
(* has not settled it has not returned and has not reported 100.           *)
C12_ReturnsExactlyWhenAllSettle ==
    /\ (main = "awaitAll") ~> (main = "returned")
    /\ [](  (\E i \in Tasks : pc[i] # "done")
            => (main # "returned" /\ 100 \notin Percents) )

C12_Witness ==
    /\ main = "awaitAll"
    /\ N >= 2
    /\ \E i \in Tasks :
          /\ pc[i] = "oracle"
          /\ \A j \in Tasks \ { i } : pc[j] = "done"
    /\ 100 \notin Percents


----------------------------------------------------------------------------
(* Segmentation claims (SegSpec) *)

\* end of the k-th emitted window
WindowEnd(k) == chunks[k].start + chunks[k].duration

\* ceil(a / b) for b > 0
CeilDiv(a, b) == 0 - ((0 - a) \div b)

(* C13: for every total duration T > 0 the windows emitted by the tiled and  *)
(* the overlap-discard loop start at 0, step, 2*step, ..., end at            *)
(* min(start + window, T), cover [0, T) with no gap, and every window but    *)
(* the last has length exactly the window length.                            *)
C13_WindowsCoverWithoutGap ==
    (main = "segmented" /\ variant \in { "tiled", "discard" } /\ file.duration > 0) =>
        /\ N >= 1
        /\ \A k \in 1..N :
              /\ chunks[k].start = (k - 1) * SegStep(variant)
              /\ WindowEnd(k) = Min(chunks[k].start + SegWindow(variant), file.duration)
              /\ chunks[k].duration > 0
        /\ \A k \in 1..(N - 1) : chunks[k + 1].start <= WindowEnd(k)
        /\ WindowEnd(N) = file.duration
        /\ \A k \in 1..(N - 1) : chunks[k].duration = SegWindow(variant)

C13_Witness ==
    /\ main = "segmented" /\ variant = "tiled"
    /\ N >= 3
    /\ chunks[N].duration < CHUNK_DURATION
    /\ chunks[N - 1].duration = CHUNK_DURATION

(* C14 as stated: for every total duration T the number of chunks the tiled  *)
(* and the fuzzy loop emit equals ceil((T - overlap) / step).                *)
C14_ChunkCount ==
    (main = "segmented" /\ variant \in { "tiled", "fuzzy" }) =>
        N = CeilDiv(file.duration - SegOverlap(variant), SegStep(variant))

(* C15 as stated: exactly one emitted window has end >= T and it is the      *)
(* last one, and no emitted chunk lies entirely inside the audio covered by  *)
(* the preceding chunk (tiled and fuzzy loops).                              *)
C15_StopsAtFirstWindowReachingEnd ==
    (main = "segmented" /\ variant \in { "tiled", "fuzzy" } /\ N >= 1) =>
        /\ { k \in 1..N : WindowEnd(k) >= file.duration } = { N }
        /\ \A k \in 2..N : WindowEnd(k) > WindowEnd(k - 1)


----------------------------------------------------------------------------
(* Reconciliation claims (RecSpec and SegSpec) *)

\* line k of the result of chunk i (1-based), in chunk-relative time
InputLine(i, k) == chunkResults[i][1].transcript[k]

\* the same line in global time, chunk i starting at (i - 1) * step
GlobalLine(i, k, step) ==
    [InputLine(i, k) EXCEPT
        !.startTimeInSeconds = (i - 1) * step + InputLine(i, k).startTimeInSeconds,
        !.endTimeInSeconds = (i - 1) * step + InputLine(i, k).endTimeInSeconds]

InOutput(line) ==
    \E m \in 1..Len(fullResult[1].transcript) : fullResult[1].transcript[m] = line

InputPositions ==
    { p \in (1..N) \X (1..2) : p[2] <= Len(chunkResults[p[1]][1].transcript) }

(* C16: under the ownership-tiling policy a line of a non-final chunk is     *)
(* kept iff its chunk-relative start lies in [0, STEP_SIZE), and every line  *)
(* of the final chunk is kept.                                               *)
C16_TiledKeepsOwnTile ==
    (main = "returned" /\ variant = "tiled") =>
        \A p \in InputPositions :
            LET i == p[1]
                start == InputLine(p[1], p[2]).startTimeInSeconds
            IN  InOutput(GlobalLine(p[1], p[2], STEP_SIZE))
                    <=> (i = N \/ (0 <= start /\ start < STEP_SIZE))

C16_Witness ==
    /\ main = "returned" /\ variant = "tiled" /\ N = 3
    /\ \E k \in 1..2 : /\ InputLine(1, k).startTimeInSeconds = STEP_SIZE
                       /\ ~InOutput(GlobalLine(1, k, STEP_SIZE))
    /\ \E k \in 1..2 : /\ InputLine(2, k).startTimeInSeconds = STEP_SIZE - 1
                       /\ InOutput(GlobalLine(2, k, STEP_SIZE))
    /\ \E k \in 1..2 : /\ InputLine(3, k).startTimeInSeconds >= STEP_SIZE
                       /\ InOutput(GlobalLine(3, k, STEP_SIZE))


\* global instants at and next to every tile and window boundary, and the
\* first and last instant of the recording
Instants ==
    { t \in { k * STEP_SIZE + b + e :
                k \in 0..(MaxWindows + 1), b \in { 0, OVERLAP_DURATION }, e \in { -1, 0, 1 } }
             \cup { 0, file.duration - 1 } :
        0 <= t /\ t < file.duration }

\* a line starting at global instant t is in the audio of chunk i, and the
\* tiled reconciler keeps it
Owns(i, t) ==
    LET relative == t - chunks[i].start IN
    /\ 0 <= relative /\ relative < chunks[i].duration
    /\ OwnsLine([startTimeInSeconds |-> relative], i, N)

(* C17: under the ownership-tiling policy the tiles partition the recording: *)
(* for every number of chunks and every instant t in [0, T) exactly one      *)
(* chunk owns t.                                                             *)
C17_TilesPartitionRecording ==
    (main = "segmented" /\ variant = "tiled") =>
        \A t \in Instants : Cardinality({ i \in 1..N : Owns(i, t) }) = 1

C17_Witness ==
    /\ main = "segmented" /\ variant = "tiled" /\ N >= 3
    /\ STEP_SIZE + 1 \in Instants
    /\ 0 <= STEP_SIZE + 1 - chunks[1].start
    /\ STEP_SIZE + 1 - chunks[1].start < chunks[1].duration
    /\ ~Owns(1, STEP_SIZE + 1) /\ Owns(2, STEP_SIZE + 1)
    /\ Owns(N, file.duration - 1)


\* step between chunk starts that each reconciler multiplies the index by
RecStep(v) == IF v = "tiled" THEN STEP_SIZE ELSE STEP_SIZE_DISCARD

\* positions of the lines the reconciler of the variant keeps
KeptPositions ==
    { p \in InputPositions :
        IF variant = "tiled"
        THEN p[1] = N \/ InputLine(p[1], p[2]).startTimeInSeconds < STEP_SIZE
        ELSE ~(p[1] > 1 /\ InputLine(p[1], p[2]).startTimeInSeconds
                                < OVERLAP_DURATION_DISCARD) }

(* C18: for every chunk index i and every kept line L of that chunk, the     *)
(* reconciled line has start = i*STEP_SIZE + L.start and end = i*STEP_SIZE   *)
(* + L.end (tiled and overlap-discard reconcilers); the output holds these   *)
(* lines and no others.                                                      *)
C18_KeptLinesShiftedByChunkOffset ==
    main = "returned" =>
        LET out == fullResult[1].transcript IN
        /\ \A p \in KeptPositions :
              \E m \in 1..Len(out) :
                  /\ out[m].chinese = InputLine(p[1], p[2]).chinese
                  /\ out[m].startTimeInSeconds
                        = (p[1] - 1) * RecStep(variant)
                            + InputLine(p[1], p[2]).startTimeInSeconds
                  /\ out[m].endTimeInSeconds
                        = (p[1] - 1) * RecStep(variant)
                            + InputLine(p[1], p[2]).endTimeInSeconds
        /\ Len(out) = Cardinality(KeptPositions)

C18_Witness ==
    /\ main = "returned" /\ N = 3
    /\ \E p \in KeptPositions :
          /\ p[1] = 3
          /\ InputLine(p[1], p[2]).startTimeInSeconds > 0
          /\ InOutput(GlobalLine(p[1], p[2], RecStep(variant)))
    /\ Cardinality(KeptPositions) < Cardinality(InputPositions)


----------------------------------------------------------------------------
(* End-to-end scenario (Spec) *)

(* C19: with total duration 400, window 180 and overlap 20 the segmenter     *)
(* emits exactly three chunks starting at 0, 160 and 320, the last of        *)
(* duration 80; chunk 2 keeps all of its lines and chunks 0 and 1 keep only  *)
(* the lines with relative start < 160.                                      *)
C19_Scenario400 ==
    (variant = "tiled" /\ file.duration = Sec(400)
        /\ main \in { "awaitAll", "returned" }) =>
        /\ CHUNK_DURATION = Sec(180) /\ OVERLAP_DURATION = Sec(20)
        /\ STEP_SIZE = Sec(160)
        /\ N = 3
        /\ chunks[1].start = 0 /\ chunks[2].start = Sec(160)
        /\ chunks[3].start = Sec(320) /\ chunks[3].duration = Sec(80)
        /\ main = "returned" =>
              \A p \in InputPositions :
                  InOutput(GlobalLine(p[1], p[2], Sec(160)))
                      <=> (p[1] = 3 \/ InputLine(p[1], p[2]).startTimeInSeconds
                                          < Sec(160))

C19_Witness ==
    /\ variant = "tiled" /\ file.duration = Sec(400) /\ main = "returned"
    /\ N = 3
    /\ \A i \in 1..3 : script[i] = OracleReturns(ResultA)
    /\ Len(fullResult[1].transcript) = 4


----------------------------------------------------------------------------
(* Overlap-discard reconciliation (RecSpec) *)

(* C20: under the overlap-discard policy a line of chunk i > 0 is dropped    *)
(* iff its chunk-relative start is < OVERLAP_DURATION, every line of chunk 0 *)
(* is kept, and each kept line is shifted by i * STEP_SIZE.                  *)
C20_DiscardDropsOverlapOfLaterChunks ==
    (main = "returned" /\ variant = "discard") =>
        /\ \A p \in InputPositions :
              (p[1] > 1 /\ InputLine(p[1], p[2]).startTimeInSeconds
                              < OVERLAP_DURATION_DISCARD)
                  <=> ~InOutput(GlobalLine(p[1], p[2], STEP_SIZE_DISCARD))
        /\ \A k \in 1..Len(chunkResults[1][1].transcript) :
              InOutput(InputLine(1, k))
        /\ Len(fullResult[1].transcript)
              = Cardinality({ p \in InputPositions :
                                InOutput(GlobalLine(p[1], p[2], STEP_SIZE_DISCARD)) })

C20_Witness ==
    /\ main = "returned" /\ variant = "discard" /\ N >= 2
    /\ \E k \in 1..2 :
          /\ InputLine(1, k).startTimeInSeconds < OVERLAP_DURATION_DISCARD
          /\ InputLine(1, k).startTimeInSeconds > 0
          /\ InOutput(InputLine(1, k))
    /\ \E k \in 1..2 :
          /\ InputLine(2, k).startTimeInSeconds = OVERLAP_DURATION_DISCARD - 1
          /\ ~InOutput(GlobalLine(2, k, STEP_SIZE_DISCARD))
    /\ \E i \in 2..N : \E k \in 1..2 :
          /\ InputLine(i, k).startTimeInSeconds = OVERLAP_DURATION_DISCARD
          /\ InOutput(GlobalLine(i, k, STEP_SIZE_DISCARD))


----------------------------------------------------------------------------
(* Fuzzy-dedup claims (DedupSpec) *)

\* the near-duplicate relation of the variant
NearDuplicate(a, b) ==
    /\ Abs(a.startTimeInSeconds - b.startTimeInSeconds) < Epsilon(variant)
    /\ ToLowerCase(Substring0(a.english, PrefixLength(variant)))
          = ToLowerCase(Substring0(b.english, PrefixLength(variant)))

\* p arrives before q: chunk-index order, then line order
Before(p, q) == p[1] < q[1] \/ (p[1] = q[1] /\ p[2] < q[2])

NoNearDuplicatesInOutput ==
    LET out == fullResult[1].transcript IN
    \A m1, m2 \in 1..Len(out) : m1 # m2 => ~NearDuplicate(out[m1], out[m2])

(* C21 as stated: after fuzzy-dedup reconciliation the output has no two     *)
(* near-duplicate lines, and of any near-duplicate pair in the input the one *)
(* earlier in chunk-index order (then line order) is the one kept.           *)
C21_EarlierOfEveryPairKept ==
    main = "returned" =>
        /\ NoNearDuplicatesInOutput
        /\ \A p, q \in InputPositions :
              (Before(p, q) /\ NearDuplicate(InputLine(p[1], p[2]), InputLine(q[1], q[2])))
                  => (InOutput(InputLine(p[1], p[2])) /\ ~InOutput(InputLine(q[1], q[2])))

(* C21 amended: the output has no two near-duplicate lines, and a line is    *)
(* dropped iff it is a near-duplicate of a line that arrived before it and   *)
(* was kept.                                                                 *)
C21_DroppedIffDuplicateOfKeptEarlier ==
    main = "returned" =>
        /\ NoNearDuplicatesInOutput
        /\ \A q \in InputPositions :
              ~InOutput(InputLine(q[1], q[2]))
                  <=> \E p \in InputPositions :
                        /\ Before(p, q)
                        /\ InOutput(InputLine(p[1], p[2]))
                        /\ NearDuplicate(InputLine(p[1], p[2]), InputLine(q[1], q[2]))

C21_Witness ==
    /\ main = "returned" /\ N >= 2
    /\ \E p, q \in InputPositions :
          /\ Before(p, q)
          /\ NearDuplicate(InputLine(p[1], p[2]), InputLine(q[1], q[2]))
          /\ ~InOutput(InputLine(p[1], p[2]))
          /\ InOutput(InputLine(q[1], q[2]))
    /\ \E p, q \in InputPositions :
          /\ p[1] < q[1]
          /\ InOutput(InputLine(p[1], p[2]))
          /\ ~InOutput(InputLine(q[1], q[2]))


----------------------------------------------------------------------------
(* Boundary utterance scenario (RecSpec) *)

(* C22 as stated: when chunk 0 reports a line with relative start 159.9 and  *)
(* chunk 1 reports the same utterance (matching text prefix) with relative   *)
(* start 0.05, with step 160, the final transcript contains exactly one of   *)
(* the two lines.                                                            *)
C22_BoundaryUtteranceKeptOnce ==
    (main = "returned" /\ variant = "tiled" /\ N >= 2) =>
        \A k0, k1 \in 1..2 :
            ( /\ InputLine(1, k0).startTimeInSeconds = Sec(160) - Tenths(1)
              /\ InputLine(2, k1).startTimeInSeconds = Tenths(1) \div 2
              /\ ToLowerCase(Substring0(InputLine(1, k0).english, STRICT_PREFIX))
                    = ToLowerCase(Substring0(InputLine(2, k1).english, STRICT_PREFIX)) )
            => ( InOutput(GlobalLine(1, k0, STEP_SIZE))
                    # InOutput(GlobalLine(2, k1, STEP_SIZE)) )


----------------------------------------------------------------------------
(* Vocabulary merge (RecSpec) *)

\* the vocabulary items of chunks 1..i in arrival order
RECURSIVE ArrivedVocabulary(_)
ArrivedVocabulary(i) ==
    IF i = 0 THEN <<>>
    ELSE ArrivedVocabulary(i - 1) \o chunkResults[i][1].vocabulary

\* positions of ArrivedVocabulary(N) whose word did not occur before
FirstOccurrences ==
    LET all == ArrivedVocabulary(N) IN
    { k \in 1..Len(all) :
        \A j \in 1..(k - 1) : ToLowerCase(all[j].word) # ToLowerCase(all[k].word) }

(* C23: for every sequence of chunk results the merged vocabulary has no two *)
(* entries whose word is equal case-insensitively, entries are in order of   *)
(* first appearance (chunk order, then order in the chunk), and the fields   *)
(* kept for a word are those of its first occurrence.                        *)
C23_VocabularyFirstOccurrenceWins ==
    main = "returned" =>
        LET out == fullResult[1].vocabulary
            all == ArrivedVocabulary(N)
        IN
        /\ \A m1, m2 \in 1..Len(out) :
              m1 # m2 => ToLowerCase(out[m1].word) # ToLowerCase(out[m2].word)
        /\ Len(out) = Cardinality(FirstOccurrences)
        /\ \A k \in FirstOccurrences :
              out[Cardinality({ j \in FirstOccurrences : j <= k })] = all[k]

C23_Witness ==
    /\ main = "returned" /\ N = 3
    /\ Len(ArrivedVocabulary(N)) >= 4
    /\ Len(fullResult[1].vocabulary) = 2
    /\ fullResult[1].vocabulary[1].word = WordTermLower
    /\ fullResult[1].vocabulary[1].definition = "second"
    /\ fullResult[1].vocabulary[2].word = WordData


----------------------------------------------------------------------------
(* Sort and timestamp parsing (ParseSpec) *)

\* a <= b on JavaScript numbers
LessEq(a, b) == ~a.nan /\ ~b.nan /\ a.val <= b.val

(* C24 as stated: for all oracle outputs the transcript returned by          *)
(* processAudio is sorted ascending by startTimeInSeconds: for every         *)
(* adjacent pair the earlier line's start is <= the later line's start.      *)
C24_TranscriptSorted ==
    main = "returned" =>
        LET out == fullResult[1].transcript IN
        \A m \in 1..(Len(out) - 1) :
            LessEq(out[m].startTimeInSeconds, out[m + 1].startTimeInSeconds)

\* the timestamps the oracle sent and the ones transcribeChunk returned
RawLines == script[1].value.transcript
ParsedLines == chunkResults[1][1].transcript
Parsed == chunkResults[1] # <<>>

\* a decimal literal: digits with at most one point
IsNumeral(str) == str # <<>> /\ DecimalPrefixLength(str) = Len(str)

\* what the claim expects of a string whose colon-separated parts are numerals
ExpectedSeconds(str) ==
    LET parts == Split(str, ":") IN
    CASE Len(parts) = 1 -> DecimalValue(parts[1])
      [] Len(parts) = 2 -> DecimalValue(parts[1]) * 60 + DecimalValue(parts[2])
      [] OTHER -> DecimalValue(parts[1]) * 3600 + DecimalValue(parts[2]) * 60
                  + DecimalValue(parts[3])

HasNumericParts(str) ==
    /\ Len(Split(str, ":")) \in 1..3
    /\ \A k \in DOMAIN Split(str, ":") : IsNumeral(Split(str, ":")[k])

(* C26: parseTimeToSeconds returns a numeric input unchanged, m*60+s for     *)
(* "m:s", h*3600+m*60+s for "h:m:s" when the parts are numeric, and the      *)
(* parsed number for a plain numeric string.                                 *)
C26_ParsesNumericForms ==
    Parsed =>
        \A k \in DOMAIN RawLines :
            LET time == RawLines[k].startTimeInSeconds
                seconds == ParsedLines[k].startTimeInSeconds
            IN  /\ time.type = "number" => seconds = Num(time.val)
                /\ (time.type = "string" /\ HasNumericParts(time.str)) =>
                        seconds = Num(ExpectedSeconds(time.str))

\* "01:02" has been parsed to 62, "01:02:03" to 3723, 45.5 to 45.5 or the
\* string "45.5" to 45.5
C26_Witness ==
    /\ Parsed
    /\ Len(RawLines) = 1
    /\ \/ /\ RawLines[1].startTimeInSeconds = String(<<"0","1",":","0","2">>)
          /\ ParsedLines[1].startTimeInSeconds = Num(Milli(62))
       \/ /\ RawLines[1].startTimeInSeconds
                = String(<<"0","1",":","0","2",":","0","3">>)
          /\ ParsedLines[1].startTimeInSeconds = Num(Milli(3723))
       \/ /\ RawLines[1].startTimeInSeconds = Number(Milli(45) + 500)
          /\ ParsedLines[1].startTimeInSeconds = Num(Milli(45) + 500)
       \/ /\ RawLines[1].startTimeInSeconds = String(<<"4","5",".","5">>)
          /\ ParsedLines[1].startTimeInSeconds = Num(Milli(45) + 500)

\* undefined, null, the empty string, a string without a colon that does not
\* begin with a number, a colon string of two or three parts one of which is
\* not a number
Unparsable(time) ==
    \/ time.type \in { "undefined", "null" }
    \/ /\ time.type = "string"
       /\ \/ time.str = <<>>
          \/ ~Includes(time.str, ":") /\ ParseFloat(time.str).nan
          \/ /\ Len(Split(time.str, ":")) \in 2..3
             /\ \E k \in DOMAIN Split(time.str, ":") :
                    ToNumber(Split(time.str, ":")[k]).nan

(* C27 as stated: for every unparsable input (undefined, null, "", "abc", a  *)
(* colon string with a non-numeric part) parseTimeToSeconds returns 0, and   *)
(* it never returns NaN for a string input.                                  *)
C27_UnparsableIsZero ==
    Parsed =>
        \A k \in DOMAIN RawLines :
            LET time == RawLines[k].startTimeInSeconds
                seconds == ParsedLines[k].startTimeInSeconds
            IN  /\ time.type = "string" => ~seconds.nan
                /\ Unparsable(time) => seconds = Num(0)

----------------------------------------------------------------------------
(* Stability of the final sort (RecSpec) *)

\* index of a line in the returned transcript
OutputIndex(line) ==
    CHOOSE m \in 1..Len(fullResult[1].transcript) : fullResult[1].transcript[m] = line

\* kept lines p, q with p pushed before q and the same global start
TiedPairs ==
    { pq \in KeptPositions \X KeptPositions :
        /\ Before(pq[1], pq[2])
        /\ GlobalLine(pq[1][1], pq[1][2], RecStep(variant)).startTimeInSeconds
             = GlobalLine(pq[2][1], pq[2][2], RecStep(variant)).startTimeInSeconds }

(* C25: the final sort is stable: two lines with equal global                *)
(* startTimeInSeconds appear in the output in the order in which they were   *)
(* appended (chunk-index order, then line order).                            *)
C25_SortStable ==
    main = "returned" =>
        \A pq \in TiedPairs :
            OutputIndex(GlobalLine(pq[1][1], pq[1][2], RecStep(variant)))
                < OutputIndex(GlobalLine(pq[2][1], pq[2][2], RecStep(variant)))

\* a tie between lines of different chunks and a tie within one chunk, in
\* a transcript that was not appended in start order
C25_Witness ==
    /\ main = "returned"
    /\ \E pq \in TiedPairs : pq[1][1] < pq[2][1]
    /\ \E pq \in TiedPairs : pq[1][1] = pq[2][1]
    /\ \E r1, r2 \in KeptPositions :
          /\ Before(r1, r2)
          /\ GlobalLine(r1[1], r1[2], RecStep(variant)).startTimeInSeconds
               > GlobalLine(r2[1], r2[2], RecStep(variant)).startTimeInSeconds

----------------------------------------------------------------------------
(* Byte-size chunking (ByteSpec) *)

\* the chunk list has been computed
Chunked == variant = "bytesize" /\ main \in { "awaitAll", "poolWait" }

RECURSIVE SumDurations(_)
SumDurations(k) ==
    IF k = 1 THEN chunks[1].duration
    ELSE RatioPlus(SumDurations(k - 1), chunks[k].duration)

\* x = t for a fraction x and a whole number t
RatioIs(x, t) == x.num = t * x.den

(* C28: in the byte-size variant the chunks are contiguous byte ranges       *)
(* covering [0, file.size); each chunk's offset is (byteOffset / file.size)  *)
(* * totalDuration, the next offset is the previous offset plus its          *)
(* duration, and the durations sum to totalDuration.                         *)
C28_ByteChunksProportional ==
    Chunked =>
        /\ N >= 1
        /\ chunks[1].byteOffset = 0
        /\ chunks[N].byteEnd = file.size
        /\ \A k \in 1..N :
              /\ chunks[k].byteOffset < chunks[k].byteEnd
              /\ chunks[k].offset
                    = Scale(chunks[k].byteOffset, file.size, GetAudioDuration(file))
        /\ \A k \in 1..(N - 1) :
              /\ chunks[k + 1].byteOffset = chunks[k].byteEnd
              /\ chunks[k + 1].offset = RatioPlus(chunks[k].offset, chunks[k].duration)
        /\ RatioIs(SumDurations(N), GetAudioDuration(file))

\* three chunks, the last one shorter, offsets and durations not whole
C28_Witness ==
    /\ Chunked
    /\ N = 3
    /\ chunks[3].byteEnd - chunks[3].byteOffset < CHUNK_SIZE_LIMIT
    /\ chunks[2].offset.num % chunks[2].offset.den # 0
    /\ chunks[3].duration.num % chunks[3].duration.den # 0

----------------------------------------------------------------------------
(* Concurrency of the byte-size pool (PoolSpec) *)

\* tasks started and not settled
Unsettled == { i \in DOMAIN pc : pc[i] \in { "encoding", "oracle" } }

(* C29 as stated: runInParallel of the byte-size variant keeps a pool of     *)
(* MAX_CONCURRENCY = 5: for every number of chunks and every completion      *)
(* order, at most 5 tasks are started and unsettled at any time.             *)
C29_AtMostFiveUnsettled ==
    Cardinality(Unsettled) <= MAX_CONCURRENCY_POOL

----------------------------------------------------------------------------
(* The counter of the polling scheduler (Spec) *)

(* C30: at every suspension point of the polling scheduler completedCount    *)
(* equals the number of filled result slots, so completedCount minus the     *)
(* number of filled slots is never positive when the guard is evaluated.     *)
C30_CompletedEqualsFilled ==
    variant = "tiled" => completedCount = Filled

\* a task has still to evaluate the guard after one chunk has succeeded and
\* another has failed
C30_Witness ==
    /\ variant = "tiled"
    /\ \E i \in Tasks : pc[i] = "delay"
    /\ \E j \in Tasks : pc[j] = "done" /\ script[j].throws
    /\ \E j \in Tasks : pc[j] = "done" /\ ~script[j].throws
    /\ completedCount = 2

----------------------------------------------------------------------------
(* Hand-over from the scheduler to reconciliation (Spec) *)

(* C31: when the scheduler hands over to reconciliation every slot 0..N-1 of *)
(* the result array holds a value (an oracle result or the empty sentinel)   *)
(* and completedCount equals N; completedCount is incremented exactly once   *)
(* per task and never exceeds N.                                             *)
C31_AllSlotsFilledAtHandOver ==
    variant = "tiled" =>
        /\ completedCount = Cardinality({ i \in Tasks : pc[i] = "done" })
        /\ completedCount <= N
        /\ main = "returned" =>
              /\ completedCount = N
              /\ \A j \in 1..N :
                    /\ chunkResults[j] # <<>>
                    /\ chunkResults[j][1] =
                          (IF script[j].throws THEN EmptyResult ELSE script[j].value)

\* three chunks handed over, one of them failed
C31_Witness ==
    /\ variant = "tiled" /\ main = "returned" /\ N = 3
    /\ \E j \in 1..N : script[j].throws
    /\ \E j \in 1..N : ~script[j].throws
    /\ completedCount = 3

----------------------------------------------------------------------------
(* Frame of reconciliation and sort (RecSpec) *)

\* the output line is the input line at position p moved by its chunk's
\* offset: same speaker, english and chinese, same length in time
Corresponds(line, p) ==
    LET input == InputLine(p[1], p[2]) IN
    /\ line.speaker = input.speaker
    /\ line.english = input.english
    /\ line.chinese = input.chinese
    /\ line.endTimeInSeconds - line.startTimeInSeconds
         = input.endTimeInSeconds - input.startTimeInSeconds
    /\ line.startTimeInSeconds
         = input.startTimeInSeconds + (p[1] - 1) * RecStep(variant)

(* C32: reconciliation and sorting change only the timestamps of a line:     *)
(* every line of the returned transcript corresponds to exactly one line of  *)
(* exactly one chunk result, with speaker, english and chinese unchanged and *)
(* with endTimeInSeconds - startTimeInSeconds unchanged, and no input line   *)
(* appears in the output more than once.                                     *)
C32_OnlyTimestampsChange ==
    main = "returned" =>
        LET out == fullResult[1].transcript IN
        /\ \A m \in 1..Len(out) :
              Cardinality({ p \in InputPositions : Corresponds(out[m], p) }) = 1
        /\ \A p \in InputPositions :
              Cardinality({ m \in 1..Len(out) : Corresponds(out[m], p) }) <= 1

\* three chunks: a line of the second chunk is in the output, moved by the
\* step, and some input line was dropped
C32_Witness ==
    /\ main = "returned" /\ N = 3
    /\ \E m \in 1..Len(fullResult[1].transcript) : \E k \in 1..2 :
          /\ Corresponds(fullResult[1].transcript[m], <<2, k>>)
          /\ fullResult[1].transcript[m] # InputLine(2, k)
    /\ Len(fullResult[1].transcript) < Cardinality(InputPositions)

----------------------------------------------------------------------------
(* Recordings no longer than one window (ShortSpec) *)

(* C33: when the recording is no longer than one window (0 < T <=            *)
(* CHUNK_DURATION) exactly one chunk is emitted and, under both the tiling   *)
(* and the overlap-discard policies, every line the oracle returns for it is *)
(* kept with its timestamps unchanged (offset 0), whatever its relative      *)
(* start.                                                                    *)
C33_SingleWindowKeepsEveryLine ==
    (0 < file.duration /\ file.duration <= SegWindow(variant)) =>
        /\ main \in { "segmented", "awaitAll", "returned" } => N = 1
        /\ main = "returned" =>
              /\ Len(fullResult[1].transcript) = Len(chunkResults[1][1].transcript)
              /\ \A k \in DOMAIN chunkResults[1][1].transcript :
                    InOutput(InputLine(1, k))

\* a recording of exactly one window under each policy's rule: the tiled
\* chunk keeps a line that starts at or after STEP_SIZE, the overlap-discard
\* chunk one that starts inside the first OVERLAP_DURATION seconds
C33_Witness ==
    /\ main = "returned" /\ N = 1
    /\ file.duration = SegWindow(variant)
    /\ \E m \in 1..Len(fullResult[1].transcript) :
          IF variant = "tiled"
          THEN fullResult[1].transcript[m].startTimeInSeconds >= STEP_SIZE
          ELSE /\ fullResult[1].transcript[m].startTimeInSeconds > 0
               /\ fullResult[1].transcript[m].startTimeInSeconds
                     < OVERLAP_DURATION_DISCARD

----------------------------------------------------------------------------
(* A recording of duration 0 (Spec) *)

(* C34: when the decoded recording has total duration 0, processAudio emits  *)
(* zero chunks, starts no task, makes no oracle call, and still resolves     *)
(* with the empty result {transcript: [], vocabulary: []} after reporting    *)
(* percent = 100.                                                            *)
C34_EmptyRecordingReturnsEmpty ==
    (variant = "tiled" /\ file.decodable /\ file.duration = 0) =>
        /\ chunks = <<>>
        /\ pc = <<>>
        /\ callLog = <<>>
        /\ writeLog = <<>>
        /\ main # "rejected"
        /\ main = "awaitAll" => AwaitAllReady
        /\ main = "returned" =>
              /\ fullResult = << EmptyResult >>
              /\ progressLog[Len(progressLog)].percent = 100

C34_Witness ==
    /\ variant = "tiled" /\ file.decodable /\ file.duration = 0
    /\ main = "returned"
    /\ fullResult = << EmptyResult >>
    /\ progressLog = << Progress(5, 0), Progress(10, 0), Progress(15, 0),
                        Progress(98, 0), Progress(100, 0) >>

----------------------------------------------------------------------------
(* The duration probe of the byte-size variant (Spec) *)

(* C35: in the byte-size variant, when the duration probe cannot decode the  *)
(* audio, getAudioDuration does not fail: it returns the estimate            *)
(* size / (128 * 1024 / 8) seconds, and processAudio continues to chunk,     *)
(* dispatch and merge as for a successful probe.                             *)
C35_FailedProbeEstimates ==
    (variant = "bytesize" /\ ~file.decodable) =>
        /\ main # "rejected"
        /\ main \in { "awaitAll", "poolWait", "returned" } =>
              /\ chunks = ByteChunks(file.size,
                                     Sec(file.size) \div ESTIMATE_BYTES_PER_SECOND)
              /\ Len(pc) = N
              /\ \A i \in 1..N : pc[i] # "unstarted"
        /\ main = "returned" =>
              /\ \A i \in 1..N : pc[i] = "done"
              /\ fullResult = << Reconcile(chunkResults, variant) >>
              /\ progressLog[Len(progressLog)].percent = 100

\* a 14 MiB file that does not decode: three chunks over an estimated 896 s,
\* all transcribed and merged
C35_Witness ==
    /\ variant = "bytesize" /\ ~file.decodable
    /\ main = "returned" /\ N = 3
    /\ RatioIs(SumDurations(N), Sec(896))
    /\ \A i \in 1..N : ~script[i].throws
    /\ fullResult[1].transcript # <<>>

----------------------------------------------------------------------------
(* App status (AppSpec) *)

(* C36: in App, after any sequence of file selections and                    *)
(* processTranscription runs, status.step becomes 'completed' (progress      *)
(* 100) only after processAudio resolved and 'error' (progress 0) only after *)
(* it rejected; result is non-null only when step is 'completed'; and        *)
(* selecting a new file resets result to null and status to idle with        *)
(* progress 0.                                                               *)
C36_StatusFollowsProcessAudio ==
    /\ ui.status.step = "completed" =>
          ui.promise = "resolved" /\ ui.status.progress = 100
    /\ ui.status.step = "error" =>
          ui.promise = "rejected" /\ ui.status.progress = 0
    /\ ui.result # <<>> => ui.status.step = "completed"
    /\ ui.event = "fileChange" =>
          ui.result = <<>> /\ ui.status = AppStatus("idle", 0)

\* a second file was selected after a failed run
C36_Witness ==
    /\ ui.event = "fileChange"
    /\ ui.promise = "rejected"
    /\ ui.runs = 1
    /\ ui.status = AppStatus("idle", 0)

----------------------------------------------------------------------------
(* Timestamp shifts (HistorySpec) *)

ShiftStep == ui'.event.name = "shift" /\ ui.activeItem # <<>>

(* C37: handleShiftTimestamps(startIndex, timeDelta) leaves every line with  *)
(* index < startIndex unchanged, sets the startTime of every line with       *)
(* index >= startIndex to max(0, startTime + timeDelta), keeps the number    *)
(* and the order of the lines, and never produces a negative startTime, in   *)
(* every shift of any sequence of shifts.                                    *)
C37_ShiftFromStartIndex ==
    [][ ShiftStep =>
          LET before == ui.activeItem[1].lines
              after == ui'.activeItem[1].lines
              startIndex == ui'.event.startIndex
              timeDelta == ui'.event.timeDelta
          IN  /\ Len(after) = Len(before)
              /\ \A idx \in 1..Len(before) :
                    /\ after[idx].text = before[idx].text
                    /\ idx - 1 < startIndex => after[idx] = before[idx]
                    /\ idx - 1 >= startIndex =>
                          /\ after[idx].startTime >= 0
                          /\ after[idx].startTime =
                                IF before[idx].startTime + timeDelta > 0
                                THEN before[idx].startTime + timeDelta
                                ELSE 0 ]_vars

\* a second shift in a row moved the last two lines of item 1 back and
\* stopped one of them at 0, the first line keeping its start
C37_Witness ==
    /\ ui.event.name = "shift"
    /\ ui.event.startIndex = 1
    /\ ui.event.timeDelta < 0
    /\ ui.activeItem # <<>>
    /\ ui.activeItem[1].id = 1
    /\ ui.activeItem[1].lines[1].startTime = 1
    /\ ui.activeItem[1].lines[2].startTime = 0
    /\ ui.activeItem[1].lines[3].startTime = 0

----------------------------------------------------------------------------
(* Reading position (ViewerSpec) *)

ValidIndex == 0 <= ui.readingIndex /\ ui.readingIndex <= ui.length - 1

(* C38: in TranscriptViewer, after any sequence of Prev, Next and row-click  *)
(* actions, readingIndex is a valid index into lines                         *)
(* (0 <= readingIndex <= lines.length - 1); Prev never moves it below 0 and  *)
(* Next never moves it past the last line.                                   *)
C38_ReadingIndexValid ==
    ui.event \in { "prev", "next", "click" } => ValidIndex

\* the same for a viewer with at least one line, from the mount on
ReadingIndexValidWhenNonEmpty == ui.length > 0 => ValidIndex

\* Next at the last line and Prev at the first line of a non-empty viewer
NextStoppedAtLastLine ==
    ui.length > 1 /\ ui.event = "next" /\ ui.readingIndex = ui.length - 1

PrevStoppedAtFirstLine ==
    ui.length > 1 /\ ui.event = "prev" /\ ui.readingIndex = 0

============================================================================
